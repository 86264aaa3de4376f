---------------------------- MODULE InMemoryStorage ----------------------------
(* InMemoryStorage of pkg/registry/solution/storage.go: the map of objects     *)
(* under s.mu, the broadcast of each write to the registered watchers after    *)
(* s.mu has been released and taken again, and the response, which is copied   *)
(* from the stored cell after s.mu has been released for good.                 *)
(*                                                                             *)
(* Objects are pointers.  A Create, Update or UpdateStatus allocates one cell, *)
(* cp, which the map then points to and which the request goes on to broadcast *)
(* and to answer from; the cell is named by the request.  UpdateStatus also    *)
(* writes through the pointer it finds in the map, so it changes the cell of   *)
(* an earlier request that may not have broadcast or answered yet.             *)
(*                                                                             *)
(* A critical section of s.mu is one step that takes the lock, and one that    *)
(* releases it.  What other goroutines do meanwhile without s.mu (read a cell  *)
(* for a response, stop a watcher, receive an event) interleaves with the two. *)
EXTENDS FieldSelectors

CONSTANTS
    Watches,    \* Watch calls, one watcher each
    ChanSize,   \* watchChanSize
    Filters     \* combinations of ns and field selector that are watched

Filter == [ns: Namespaces \cup {All}, sel: {sel \in Selectors : Supported(sel)}]

ASSUME ChanSizeAssumption == ChanSize \in Nat \ {0}
ASSUME FiltersAssumption == Filters \subseteq Filter /\ Nil \notin Filters

VARIABLES
    mu,        \* s.mu: Nil, or the request inside a write critical section
    objects,   \* s.objects: the cell each key points to, or Nil
    heap,      \* contents of each cell
    watchers,  \* s.watchers
    filter,    \* ns and fieldSel of each watcher, Nil before Watch
    stopped,   \* watchers that have been stopped
    sent,      \* every event put into the channel of each watcher
    taken,     \* how many of them the consumer has received
    pc,        \* where each request is
    result,    \* what each request is answered, Nil while open
    items,     \* objects a Delete or DeleteCollection still has to broadcast
    response,  \* the fields copied so far into the response of a write
    effect,    \* history: when each request took effect, and on which objects
    clock,     \* history: how many requests have taken effect
    since,     \* history: requests that had returned when a watcher registered
    missed     \* history: <<request, key>> of events dropped at a full channel

objectVars  == <<objects, heap>>
watchVars   == <<watchers, filter, stopped, sent, taken, since, missed>>
requestVars == <<pc, result, items, response>>
effectVars  == <<effect, clock>>
vars == <<mu, objectVars, watchVars, requestVars, effectVars>>

EventTypes == {"ADDED", "MODIFIED", "DELETED"}
Event      == [type: EventTypes, by: Requests, obj: Solution]

NoEffect == [at |-> 0, objs |-> {}, after |-> {}, watched |-> {}]
NoFields == [rv |-> 0, phase |-> Nil]

Init ==
    /\ mu = Nil
    /\ objects = [k \in Keys |-> Nil]
    /\ heap = [r \in Requests |-> Nil]
    /\ watchers = {}
    /\ filter = [w \in Watches |-> Nil]
    /\ stopped = {}
    /\ sent = [w \in Watches |-> <<>>]
    /\ taken = [w \in Watches |-> 0]
    /\ pc = [r \in Requests |-> "idle"]
    /\ result = [r \in Requests |-> Nil]
    /\ items = [r \in Requests |-> {}]
    /\ response = [r \in Requests |-> NoFields]
    /\ effect = [r \in Requests |-> NoEffect]
    /\ clock = 0
    /\ since = [w \in Watches |-> {}]
    /\ missed = [w \in Watches |-> {}]

--------------------------------------------------------------------------------
(* Steps the operations share.                                                 *)

Goto(r, label) == pc' = [pc EXCEPT ![r] = label]

(* s.mu.Lock() by a request that has not done anything yet.                    *)
Lock(r) ==
    /\ pc[r] = "idle"
    /\ mu = Nil
    /\ mu' = r
    /\ Goto(r, "locked")

Answer(r, op, out) == result' = [result EXCEPT ![r] = Reply(op, out)]

(* History only: r takes effect now, on objs, after the requests in "after"    *)
(* have returned and with the watchers in "watched" registered.                *)
Returned == {r \in Requests : pc[r] = "done"}

TakeEffect(r, objs) ==
    /\ clock' = clock + 1
    /\ effect' = [effect EXCEPT ![r] = [at |-> clock + 1, objs |-> objs,
                                        after |-> Returned, watched |-> watchers]]

(* A critical section that ends in an error: nothing stored, nothing announced.*)
Fail(r, op, out) ==
    /\ Lock(r)
    /\ Answer(r, op, out)
    /\ UNCHANGED <<objectVars, watchVars, items, response, effectVars>>

(* s.objects[k] = cp, with cp the cell r allocated.                            *)
Store(r, k, cp, op) ==
    /\ Lock(r)
    /\ objects' = [objects EXCEPT ![k] = r]
    /\ Answer(r, op, "ok")
    /\ TakeEffect(r, {cp})
    /\ UNCHANGED <<watchVars, items, response>>

Existing(k) == heap[objects[k]]

(* The map as a client sees it: each key with the contents of its cell.        *)
Stored == [k \in Keys |-> IF objects[k] = Nil THEN Nil ELSE Existing(k)]

(* Mutant: an early return forgets to unlock.                                  *)
UnlockOnSuccess(r) ==
    /\ pc[r] = "locked"
    /\ mu' = IF result[r].out = "ok" THEN Nil ELSE mu
    /\ Goto(r, IF result[r].out = "ok" THEN "broadcast" ELSE "done")
    /\ UNCHANGED <<objectVars, watchVars, result, items, response, effectVars>>

(* s.mu.Unlock(): an error is returned at once, a success is broadcast first.  *)
Unlock(r) ==
    /\ pc[r] = "locked"
    /\ mu' = Nil
    /\ Goto(r, IF result[r].out = "ok" THEN "broadcast" ELSE "done")
    /\ UNCHANGED <<objectVars, watchVars, result, items, response, effectVars>>

--------------------------------------------------------------------------------
(* Requests.                                                                   *)

Get(r, k) ==
    /\ pc[r] = "idle"
    /\ mu = Nil
    /\ Answer(r, "Get", IF objects[k] = Nil THEN "NotFound" ELSE "ok")
    /\ Goto(r, "done")
    /\ UNCHANGED <<mu, objectVars, watchVars, items, response, effectVars>>

(* createValidation runs, and may fail, before s.mu is taken.                  *)
CreateInvalid(r) ==
    /\ pc[r] = "idle"
    /\ Answer(r, "Create", "Invalid")
    /\ Goto(r, "done")
    /\ UNCHANGED <<mu, objectVars, watchVars, items, response, effectVars>>

(* Mutant: Create does not look whether the key is taken.                      *)
CreateUnchecked(r, k, spec, phase) ==
    LET cp == Created(r, k, spec, phase) IN
    /\ heap' = [heap EXCEPT ![r] = cp]
    /\ Store(r, k, cp, "Create")

Create(r, k, spec, phase) ==
    \/ /\ objects[k] # Nil
       /\ Fail(r, "Create", "AlreadyExists")
    \/ /\ objects[k] = Nil
       /\ LET cp == Created(r, k, spec, phase) IN
          /\ heap' = [heap EXCEPT ![r] = cp]
          /\ Store(r, k, cp, "Create")

(* objInfo.UpdatedObject and updateValidation, which may fail, run under s.mu. *)
Update(r, k, spec, phase) ==
    \/ /\ objects[k] = Nil
       /\ Fail(r, "Update", "NotFound")
    \/ /\ objects[k] # Nil
       /\ Fail(r, "Update", "Invalid")
    \/ /\ objects[k] # Nil
       /\ LET cp == Updated(Existing(k), spec, phase) IN
          /\ heap' = [heap EXCEPT ![r] = cp]
          /\ Store(r, k, cp, "Update")

(* Mutant: the map keeps pointing to the cell that was written in place.       *)
UpdateStatusAliased(r, k, phase) ==
    /\ objects[k] # Nil
    /\ LET cp == StatusUpdated(Existing(k), phase) IN
       /\ heap' = [heap EXCEPT ![objects[k]] = cp, ![r] = cp]
       /\ TakeEffect(r, {cp})
    /\ Lock(r)
    /\ Answer(r, "UpdateStatus", "ok")
    /\ UNCHANGED <<objects, watchVars, items, response>>

(* Mutant: only the copy, not the cell written in place, gets the new version. *)
UpdateStatusTorn(r, k, phase) ==
    /\ objects[k] # Nil
    /\ LET cp == StatusUpdated(Existing(k), phase) IN
       /\ heap' = [heap EXCEPT ![objects[k]].phase = phase, ![r] = cp]
       /\ Store(r, k, cp, "UpdateStatus")

(* Status and ResourceVersion are written into the cell the map points to, and *)
(* the map is then pointed to a copy of that cell.                             *)
UpdateStatus(r, k, phase) ==
    \/ /\ objects[k] = Nil
       /\ Fail(r, "UpdateStatus", "NotFound")
    \/ /\ objects[k] # Nil
       /\ Fail(r, "UpdateStatus", "Invalid")
    \/ /\ objects[k] # Nil
       /\ LET cp == StatusUpdated(Existing(k), phase) IN
          /\ heap' = [heap EXCEPT ![objects[k]] = cp, ![r] = cp]
          /\ Store(r, k, cp, "UpdateStatus")

Delete(r, k) ==
    \/ /\ objects[k] = Nil
       /\ Fail(r, "Delete", "NotFound")
    \/ /\ objects[k] # Nil
       /\ Fail(r, "Delete", "Invalid")
    \/ /\ objects[k] # Nil
       /\ Lock(r)
       /\ objects' = [objects EXCEPT ![k] = Nil]
       /\ items' = [items EXCEPT ![r] = {Existing(k)}]
       /\ Answer(r, "Delete", "ok")
       /\ TakeEffect(r, {Existing(k)})
       /\ UNCHANGED <<heap, watchVars, response>>

(* DeleteCollection first lists, and lets go of s.mu ...                       *)
DeleteCollection(r, ns, sel) ==
    /\ pc[r] = "idle"
    /\ mu = Nil
    /\ Supported(sel)
    /\ items' = [items EXCEPT ![r] = MemoryList(Stored, ns, sel)]
    /\ Goto(r, "collect")
    /\ UNCHANGED <<mu, objectVars, watchVars, result, response, effectVars>>

(* Mutant: only objects unchanged since the list are deleted, but all of the   *)
(* list is announced.                                                          *)
DeleteListedUnchanged(r) ==
    /\ pc[r] = "collect"
    /\ mu = Nil
    /\ mu' = r
    /\ Goto(r, "locked")
    /\ LET gone == {k \in Keys : objects[k] # Nil /\ Existing(k) \in items[r]} IN
       /\ objects' = [k \in Keys |-> IF k \in gone THEN Nil ELSE objects[k]]
       /\ TakeEffect(r, {Existing(k) : k \in gone})
    /\ Answer(r, "DeleteCollection", "ok")
    /\ UNCHANGED <<heap, watchVars, items, response>>

(* ... then deletes what now lies under the listed names.  Map iteration gave  *)
(* the list an arbitrary order, so the items deleted before deleteValidation   *)
(* fails on one are any proper subset; they are not broadcast.                 *)
DeleteListed(r) ==
    /\ pc[r] = "collect"
    /\ mu = Nil
    /\ mu' = r
    /\ Goto(r, "locked")
    /\ \E valid \in SUBSET items[r] :
          LET gone == {o.key : o \in valid} IN
          /\ objects' = [k \in Keys |-> IF k \in gone THEN Nil ELSE objects[k]]
          /\ TakeEffect(r, {Existing(k) : k \in {k \in gone : objects[k] # Nil}})
          /\ \/ /\ valid = items[r]
                /\ Answer(r, "DeleteCollection", "ok")
                /\ UNCHANGED items
             \/ /\ valid # items[r]
                /\ Answer(r, "DeleteCollection", "Invalid")
                /\ items' = [items EXCEPT ![r] = {}]
    /\ UNCHANGED <<heap, watchVars, response>>

--------------------------------------------------------------------------------
(* broadcast: one critical section of s.mu.  Each watcher is touched once and  *)
(* by its own lock, so the loop over s.watchers is one step (module Watcher    *)
(* takes send apart).                                                          *)

Matches(w, obj) ==
    /\ filter[w].ns \in {All, NamespaceOf(obj.key)}
    /\ Selects(filter[w].sel, obj)

Full(w) == Len(sent[w]) - taken[w] >= ChanSize

(* Mutant: a watcher whose filter the event does not match counts as stopped.  *)
broadcastPruning(r, type, obj) ==
    LET alive    == watchers \ stopped
        wanting  == {w \in alive : Matches(w, obj)}
        event    == [type |-> type, by |-> r, obj |-> obj]
    IN  /\ mu = Nil
        /\ watchers' = wanting
        /\ sent' = [w \in Watches |-> IF w \in wanting /\ ~Full(w)
                                      THEN Append(sent[w], event) ELSE sent[w]]
        /\ missed' = [w \in Watches |-> IF w \in wanting /\ Full(w)
                                        THEN missed[w] \cup {<<r, obj.key>>}
                                        ELSE missed[w]]
        /\ UNCHANGED <<mu, objectVars, filter, stopped, taken, since,
                       result, response, effectVars>>

broadcast(r, type, obj) ==
    LET alive    == watchers \ stopped
        wanting  == {w \in alive : Matches(w, obj)}
        dropping == {w \in wanting : Full(w)}
        event    == [type |-> type, by |-> r, obj |-> obj]
    IN  /\ mu = Nil
        /\ watchers' = alive
        /\ sent' = [w \in Watches |-> IF w \in wanting \ dropping
                                      THEN Append(sent[w], event) ELSE sent[w]]
        /\ missed' = [w \in Watches |-> IF w \in dropping
                                        THEN missed[w] \cup {<<r, obj.key>>}
                                        ELSE missed[w]]
        /\ UNCHANGED <<mu, objectVars, filter, stopped, taken, since,
                       result, response, effectVars>>

(* Mutant: go s.broadcast(...), some time after the request has been answered. *)
AnnounceLater(r) ==
    /\ result[r] # Nil
    /\ result[r].op \in {"Create", "Update", "UpdateStatus"}
    /\ result[r].out = "ok"
    /\ \/ /\ pc[r] = "broadcast"
          /\ Goto(r, "respond")
          /\ UNCHANGED <<mu, objectVars, watchVars, result, items, response, effectVars>>
       \/ /\ pc[r] = "done"
          /\ \A w \in Watches : \A i \in DOMAIN sent[w] : sent[w][i].by # r
          /\ broadcast(r, IF result[r].op = "Create" THEN "ADDED" ELSE "MODIFIED", heap[r])
          /\ UNCHANGED <<pc, items>>

(* Create, Update, UpdateStatus broadcast their cell as it is by now.          *)
Announce(r) ==
    /\ pc[r] = "broadcast"
    /\ result[r].op \in {"Create", "Update", "UpdateStatus"}
    /\ broadcast(r, IF result[r].op = "Create" THEN "ADDED" ELSE "MODIFIED", heap[r])
    /\ Goto(r, "respond")
    /\ UNCHANGED items

(* Delete and DeleteCollection broadcast their items one by one.               *)
AnnounceDeleted(r) ==
    /\ pc[r] = "broadcast"
    /\ result[r].op \in {"Delete", "DeleteCollection"}
    /\ \E obj \in items[r] :
          /\ broadcast(r, "DELETED", obj)
          /\ items' = [items EXCEPT ![r] = @ \ {obj}]
    /\ UNCHANGED pc

(* return obj / return sl: both are the request's alone by now.                *)
RespondDeleted(r) ==
    /\ pc[r] = "broadcast"
    /\ result[r].op \in {"Delete", "DeleteCollection"}
    /\ items[r] = {}
    /\ Goto(r, "done")
    /\ UNCHANGED <<mu, objectVars, watchVars, result, items, response, effectVars>>

(* return cp.DeepCopyObject(): the fields are read one after the other, in an  *)
(* unspecified order, while an UpdateStatus may be writing them under s.mu.    *)
CopyVersion(r) ==
    /\ pc[r] = "respond"
    /\ response[r].rv = 0
    /\ response' = [response EXCEPT ![r].rv = heap[r].rv]
    /\ UNCHANGED <<mu, objectVars, watchVars, pc, result, items, effectVars>>

CopyStatus(r) ==
    /\ pc[r] = "respond"
    /\ response[r].phase = Nil
    /\ response' = [response EXCEPT ![r].phase = heap[r].phase]
    /\ UNCHANGED <<mu, objectVars, watchVars, pc, result, items, effectVars>>

Respond(r) ==
    /\ pc[r] = "respond"
    /\ response[r].rv # 0
    /\ response[r].phase # Nil
    /\ Goto(r, "done")
    /\ UNCHANGED <<mu, objectVars, watchVars, result, items, response, effectVars>>

--------------------------------------------------------------------------------
(* Watchers.                                                                   *)

(* Mutant: Watch starts with the objects that exist.                           *)
WatchReplay(w, f) ==
    /\ mu = Nil
    /\ filter[w] = Nil
    /\ filter' = [filter EXCEPT ![w] = f]
    /\ watchers' = watchers \cup {w}
    /\ since' = [since EXCEPT ![w] = Returned]
    /\ \/ /\ \E k \in Keys :
             /\ objects[k] # Nil
             /\ sent' = [sent EXCEPT ![w] = <<[type |-> "ADDED", by |-> objects[k],
                                              obj |-> Existing(k)]>>]
       \/ /\ \A k \in Keys : objects[k] = Nil
          /\ UNCHANGED sent
    /\ UNCHANGED <<mu, objectVars, stopped, taken, missed, requestVars, effectVars>>

(* Watch registers a new watcher; it replays nothing.                          *)
Watch(w, f) ==
    /\ mu = Nil
    /\ filter[w] = Nil
    /\ filter' = [filter EXCEPT ![w] = f]
    /\ watchers' = watchers \cup {w}
    /\ since' = [since EXCEPT ![w] = Returned]
    /\ UNCHANGED <<mu, objectVars, stopped, sent, taken, missed, requestVars, effectVars>>

(* Stop, called by the watch handler or by the goroutine that waits for the    *)
(* end of the request's context.  It does not touch s.watchers.                *)
Stop(w) ==
    /\ filter[w] # Nil
    /\ w \notin stopped
    /\ stopped' = stopped \cup {w}
    /\ UNCHANGED <<mu, objectVars, watchers, filter, sent, taken, since, missed,
                   requestVars, effectVars>>

(* The watch handler receives from ResultChan; a closed channel still yields   *)
(* what is buffered.                                                           *)
Receive(w) ==
    /\ taken[w] < Len(sent[w])
    /\ taken' = [taken EXCEPT ![w] = @ + 1]
    /\ UNCHANGED <<mu, objectVars, watchers, filter, stopped, sent, since, missed,
                   requestVars, effectVars>>

--------------------------------------------------------------------------------
Start(r) ==
    \/ CreateInvalid(r)
    \/ \E k \in Keys :
          \/ Get(r, k)
          \/ Delete(r, k)
          \/ \E phase \in Phases : UpdateStatus(r, k, phase)
          \/ \E spec \in SolutionNames, phase \in Phases :
                Create(r, k, spec, phase) \/ Update(r, k, spec, phase)
    \/ \E ns \in Namespaces, sel \in Selectors : DeleteCollection(r, ns, sel)

Continue(r) ==
    \/ Unlock(r) \/ DeleteListed(r)
    \/ Announce(r) \/ AnnounceDeleted(r)
    \/ RespondDeleted(r) \/ CopyVersion(r) \/ CopyStatus(r) \/ Respond(r)

(* Every request has been answered and nobody is left to watch.                *)
AllServed ==
    /\ \A r \in Requests : pc[r] = "done"
    /\ UNCHANGED vars

Next ==
    \/ \E r \in Requests : Start(r) \/ Continue(r)
    \/ \E w \in Watches :
          \/ \E f \in Filters : Watch(w, f)
          \/ Stop(w)
          \/ Receive(w)
    \/ AllServed

Spec == Init /\ [][Next]_vars

(* A goroutine that has begun a request keeps running, and sync.RWMutex hands  *)
(* the lock to a waiter before long (its starvation mode), so a step that      *)
(* waits for s.mu is taken once it is enabled again and again.                 *)
FairSpec == Spec /\ \A r \in Requests : SF_vars(Continue(r))

--------------------------------------------------------------------------------
(* Properties.                                                                 *)

PCs == {"idle", "locked", "collect", "broadcast", "respond", "done"}

(* Every variable keeps its type.                                              *)
TypeOK ==
    /\ mu \in Requests \cup {Nil}
    /\ objects \in [Keys -> Requests \cup {Nil}]
    /\ heap \in [Requests -> Solution \cup {Nil}]
    /\ watchers \subseteq Watches
    /\ filter \in [Watches -> Filters \cup {Nil}]
    /\ stopped \subseteq Watches
    /\ sent \in [Watches -> Seq(Event)]
    /\ taken \in [Watches -> Nat]
    /\ pc \in [Requests -> PCs]
    /\ result \in [Requests -> Results \cup {Nil}]
    /\ items \in [Requests -> SUBSET Solution]
    /\ response \in [Requests -> [rv: Nat, phase: Phases \cup {Nil}]]
    /\ effect \in [Requests -> [at: Nat, objs: SUBSET Solution,
                                after: SUBSET Requests, watched: SUBSET Watches]]
    /\ clock \in Nat
    /\ since \in [Watches -> SUBSET Requests]
    /\ missed \in [Watches -> SUBSET (Requests \X Keys)]

Backend == INSTANCE SolutionStore WITH store <- Stored

(* The map of pointers, with its in-place status updates, behaves as a map of  *)
(* values: each request takes effect on one key at one instant, is answered    *)
(* consistently with that instant, and no write through a pointer shows under  *)
(* another key or outside a request.                                           *)
ImplementsStore == Backend!Spec

Committed == UNION {effect[r].objs : r \in Requests}

(* Two states of one incarnation with the same resourceVersion are the same    *)
(* state: concurrent Update and UpdateStatus never hand out a version twice.   *)
VersionNamesContent ==
    \A o1, o2 \in Committed : (o1.born = o2.born /\ o1.rv = o2.rv) => o1 = o2

(* Whatever a watcher is sent was, at some moment, the state stored under that *)
(* key: an event built from a cell others write to is never half of two states.*)
EventsCommitted ==
    \A w \in Watches : \A i \in DOMAIN sent[w] : sent[w][i].obj \in Committed

(* A status update that finds the cell of a write not yet broadcast or answered*)
(* moves it forward by one version and then leaves the cell for good: events   *)
(* and responses of a write are at most one version ahead of that write.       *)
AtMostOneAhead ==
    /\ \A r \in Requests : response[r].rv # 0 =>
          \E o \in effect[r].objs : response[r].rv \in {o.rv, o.rv + 1}
    /\ \A w \in Watches : \A i \in DOMAIN sent[w] :
          sent[w][i].type # "DELETED" =>
             \E o \in effect[sent[w][i].by].objs :
                sent[w][i].obj.rv \in {o.rv, o.rv + 1}

(* Requests of one client, sent one after the other, reach each watcher in that*)
(* order: an event is never overtaken by that of a request which took effect   *)
(* only after the first had returned.                                          *)
RealTimeOrder ==
    \A w \in Watches : \A i, j \in DOMAIN sent[w] :
        i < j => sent[w][j].by \notin effect[sent[w][i].by].after

(* A watch streams new events only (docs/watch.md:39): it is never sent the    *)
(* event of a request that had returned before it was registered.              *)
NoReplay ==
    \A w \in Watches : \A i \in DOMAIN sent[w] : sent[w][i].by \notin since[w]

Copies(w, r) == {i \in DOMAIN sent[w] : sent[w][i].by = r}

(* By the time a write is answered, each watcher that was registered when it   *)
(* took effect, that has not stopped and whose filter the object matches has   *)
(* been sent exactly one event for it, or had a full channel.                  *)
AnnouncedOnce ==
    \A r \in Requests : \A w \in effect[r].watched :
        (pc[r] \in {"respond", "done"} /\ result[r].out = "ok"
            /\ result[r].op # "DeleteCollection")
        => \A o \in effect[r].objs :
             IF Matches(w, o)
             THEN \/ w \in stopped
                  \/ \E i \in DOMAIN sent[w] : Copies(w, r) = {i}
                  \/ Copies(w, r) = {} /\ <<r, o.key>> \in missed[w] /\ Len(sent[w]) >= ChanSize
             ELSE Copies(w, r) = {}

(* Once a watcher has been told that an incarnation is DELETED, no request can *)
(* bring that incarnation back, even when DeleteCollection works from a list   *)
(* that was overtaken by other writes.                                         *)
DeletedIsGone ==
    \A w \in Watches : \A i \in DOMAIN sent[w] :
        sent[w][i].type = "DELETED" =>
            \A k \in Keys : Stored[k] # Nil => Stored[k].born # sent[w][i].obj.born

(* Whatever s.mu protects and however it is contended, a request that has begun*)
(* is answered: every path out of a critical section releases s.mu, and no     *)
(* broadcast is attempted with s.mu held.                                      *)
EveryRequestReturns ==
    \A r \in Requests : (pc[r] # "idle") ~> (pc[r] = "done")

--------------------------------------------------------------------------------
(* What the documents say and the code does not do.                            *)

(* Events about one object reach every watcher in the order the writes took    *)
(* effect, which is what calling broadcast while holding mu would ensure       *)
(* (docs/superpowers/specs/2026-04-27-watch-listen-notify-design.md:67).       *)
EventsInCommitOrder ==
    \A w \in Watches : \A i, j \in DOMAIN sent[w] :
        (i < j /\ sent[w][i].obj.key = sent[w][j].obj.key)
        => effect[sent[w][i].by].at <= effect[sent[w][j].by].at

(* Create answers resourceVersion "1" (storage_test.go:37,                     *)
(* docs/superpowers/specs/2026-04-23-aggregated-api-server-design.md:57).      *)
CreateAnswersVersionOne ==
    \A r \in Requests :
        (pc[r] = "done" /\ result[r] = Reply("Create", "ok")) => response[r].rv = 1
================================================================================
