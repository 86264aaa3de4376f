---------------------------- MODULE PostgresStorage ----------------------------
(* The requests of PostgresStorage, pkg/registry/solution/storage_postgres.go: *)
(* each a sequence of SQL statements, each statement a transaction of its own  *)
(* (pgxpool, no BEGIN), from any number of server processes on one table.      *)
(*                                                                             *)
(* A statement is one step: the row locks of PostgreSQL make it atomic, and    *)
(* NOTIFYs are queued in the order their transactions commit.  Between two     *)
(* statements of a request anything may happen: other requests, the end of the *)
(* request's context (its next statement fails) or of its server.              *)
EXTENDS FieldSelectors

CONSTANT MaxFailures  \* bound: statements that fail and requests lost in a crash

ASSUME MaxFailuresAssumption == MaxFailures \in Nat

VARIABLES
    rows,      \* the table solutions: Solution or Nil under each key
    notified,  \* every NOTIFY solutions, in the order of their commits
    pc,        \* where each request is
    op,        \* which operation it performs
    scope,     \* namespace of a DeleteCollection
    existing,  \* what Update, UpdateStatus, Delete read at first
    items,     \* listed objects a DeleteCollection still has to delete
    pending,   \* objects a request still has to announce
    result,    \* what it is answered, Nil while open
    failures,  \* counts towards MaxFailures
    wrote,     \* history: each row a request wrote, or removed, as it then was
    listed,    \* history: the list of a DeleteCollection
    after,     \* history: requests that had returned when it had written
    unheard    \* history: announcements lost, as <<request, object>>

callVars    == <<op, scope, existing, items>>
historyVars == <<wrote, listed, after, unheard>>
vars == <<rows, notified, pc, callVars, pending, result, failures, historyVars>>

Init ==
    /\ rows = [k \in Keys |-> Nil]
    /\ notified = <<>>
    /\ pc = [r \in Requests |-> "idle"]
    /\ op = [r \in Requests |-> Nil]
    /\ scope = [r \in Requests |-> Nil]
    /\ existing = [r \in Requests |-> Nil]
    /\ items = [r \in Requests |-> {}]
    /\ pending = [r \in Requests |-> {}]
    /\ result = [r \in Requests |-> Nil]
    /\ failures = 0
    /\ wrote = [r \in Requests |-> {}]
    /\ listed = [r \in Requests |-> {}]
    /\ after = [r \in Requests |-> {}]
    /\ unheard = {}

--------------------------------------------------------------------------------
(* Steps the operations share.                                                 *)

Goto(r, label) == pc' = [pc EXCEPT ![r] = label]

Answer(r, operation, out) == result' = [result EXCEPT ![r] = Reply(operation, out)]

(* The request returns, and leaves rows and announcements as they are.         *)
Return(r, operation, out) ==
    /\ Answer(r, operation, out)
    /\ Goto(r, "done")
    /\ UNCHANGED <<rows, notified, callVars, pending, historyVars>>

Returned == {r \in Requests : pc[r] = "done"}

(* One more failure, if the bound allows it.                                   *)
Failure ==
    /\ failures < MaxFailures
    /\ failures' = failures + 1

(* A statement that changes the row of k to row; "touched" goes into history.  *)
(* It succeeds, and sol is to be announced; or it takes effect and fails.      *)
Commit(r, operation, k, row, touched, sol) ==
    /\ rows' = [rows EXCEPT ![k] = row]
    /\ wrote' = [wrote EXCEPT ![r] = {touched}]
    /\ after' = [after EXCEPT ![r] = Returned]
    /\ UNCHANGED <<notified, listed, unheard>>
    /\ \/ /\ Answer(r, operation, "ok")
          /\ pending' = [pending EXCEPT ![r] = {sol}]
          /\ Goto(r, "announce")
          /\ UNCHANGED failures
       \/ /\ Failure
          /\ Answer(r, operation, "Error")
          /\ Goto(r, "done")
          /\ UNCHANGED pending

--------------------------------------------------------------------------------
(* Get, Create, and the reads other operations begin with.                     *)

(* No row and a failed statement are answered alike.                           *)
Get(r, k) ==
    /\ pc[r] = "idle"
    /\ \/ Return(r, "Get", IF rows[k] = Nil THEN "NotFound" ELSE "ok") /\ UNCHANGED failures
       \/ Return(r, "Get", "NotFound") /\ Failure

CreateInvalid(r) ==
    /\ pc[r] = "idle"
    /\ Return(r, "Create", "Invalid")
    /\ UNCHANGED failures

(* INSERT: the primary key refuses a second row.                               *)
Create(r, k, spec, phase) ==
    /\ pc[r] = "idle"
    /\ \/ /\ rows[k] = Nil
          /\ op' = [op EXCEPT ![r] = "Create"]
          /\ UNCHANGED <<scope, existing, items>>
          /\ LET sol == Created(r, k, spec, phase) IN Commit(r, "Create", k, sol, sol, sol)
       \/ /\ rows[k] # Nil
          /\ Return(r, "Create", "AlreadyExists")
          /\ UNCHANGED failures
       \/ Return(r, "Create", "Error") /\ Failure

(* The SELECT of Update, UpdateStatus and Delete, by way of Get.               *)
Read(r, k, operation) ==
    /\ pc[r] = "idle"
    /\ \/ /\ rows[k] # Nil
          /\ op' = [op EXCEPT ![r] = operation]
          /\ existing' = [existing EXCEPT ![r] = rows[k]]
          /\ Goto(r, "write")
          /\ UNCHANGED <<rows, notified, scope, items, pending, result, failures, historyVars>>
       \/ /\ rows[k] = Nil
          /\ Return(r, operation, "NotFound")
          /\ UNCHANGED failures
       \/ Return(r, operation, "NotFound") /\ Failure

(* An unsupported field is a bad request; so many arguments, a failed query.   *)
ListRefused(r, operation, sel) ==
    /\ \/ ~Supported(sel) /\ Return(r, operation, "Invalid")
       \/ Supported(sel) /\ ~ArgumentsMatch(sel) /\ Return(r, operation, "Error")
    /\ UNCHANGED failures

(* What it answers is SqlList.                                                 *)
List(r, sel) ==
    /\ pc[r] = "idle"
    /\ \/ ListRefused(r, "List", sel)
       \/ /\ Supported(sel) /\ ArgumentsMatch(sel)
          /\ Return(r, "List", "ok")
          /\ UNCHANGED failures
       \/ Return(r, "List", "Error") /\ Failure

(* The SELECT of DeleteCollection, by way of List.                             *)
DeleteCollection(r, ns, sel) ==
    /\ pc[r] = "idle"
    /\ \/ ListRefused(r, "DeleteCollection", sel)
       \/ /\ Supported(sel) /\ ArgumentsMatch(sel)
          /\ op' = [op EXCEPT ![r] = "DeleteCollection"]
          /\ scope' = [scope EXCEPT ![r] = ns]
          /\ items' = [items EXCEPT ![r] = SqlList(rows, ns, sel)]
          /\ listed' = [listed EXCEPT ![r] = SqlList(rows, ns, sel)]
          /\ Goto(r, "collect")
          /\ UNCHANGED <<rows, notified, existing, pending, result, failures,
                         wrote, after, unheard>>
       \/ Return(r, "DeleteCollection", "Error") /\ Failure

--------------------------------------------------------------------------------
(* The writes.                                                                 *)

(* objInfo.UpdatedObject or the validation of an Update or a Delete fails.     *)
Refuse(r) ==
    /\ pc[r] = "write"
    /\ Return(r, op[r], "Invalid")
    /\ UNCHANGED failures

(* RowsAffected() = 0: the row has gone since it was read.                     *)
Gone(r) ==
    /\ pc[r] = "write"
    /\ rows[existing[r].key] = Nil
    /\ Return(r, op[r], "NotFound")
    /\ UNCHANGED failures

(* The context has ended, or the connection broke before the statement ran.    *)
StatementFails(r) ==
    /\ pc[r] \in {"write", "collect"}
    /\ Return(r, op[r], "Error")
    /\ Failure

(* What is written counts from the version read, not from the one in the row;  *)
(* what is announced has the identity of the object read.                      *)
Update(r, spec, phase) ==
    LET k   == existing[r].key
        sol == Updated(existing[r], spec, phase)
        row == [rows[k] EXCEPT !.rv = sol.rv, !.spec = spec, !.phase = phase]
    IN  /\ pc[r] = "write"
        /\ op[r] = "Update"
        /\ rows[k] # Nil
        /\ UNCHANGED callVars
        /\ Commit(r, op[r], k, row, row, sol)

(* Mutant: all columns are written back, those of the object read included.    *)
UpdateStatusWholeRow(r, phase) ==
    LET k   == existing[r].key
        sol == StatusUpdated(existing[r], phase)
        row == [rows[k] EXCEPT !.rv = sol.rv, !.spec = sol.spec, !.phase = phase]
    IN  /\ pc[r] = "write"
        /\ op[r] = "UpdateStatus"
        /\ rows[k] # Nil
        /\ UNCHANGED callVars
        /\ Commit(r, op[r], k, row, row, sol)

(* Likewise; the spec announced and answered is the one read.                  *)
UpdateStatus(r, phase) ==
    LET k   == existing[r].key
        sol == StatusUpdated(existing[r], phase)
        row == [rows[k] EXCEPT !.rv = sol.rv, !.phase = phase]
    IN  /\ pc[r] = "write"
        /\ op[r] = "UpdateStatus"
        /\ rows[k] # Nil
        /\ UNCHANGED callVars
        /\ Commit(r, op[r], k, row, row, sol)

(* Mutant: RowsAffected is not looked at.                                      *)
DeleteUnchecked(r) ==
    LET k == existing[r].key
    IN  /\ pc[r] = "write"
        /\ op[r] = "Delete"
        /\ rows' = [rows EXCEPT ![k] = Nil]
        /\ wrote' = [wrote EXCEPT ![r] = IF rows[k] = Nil THEN {} ELSE {rows[k]}]
        /\ after' = [after EXCEPT ![r] = Returned]
        /\ Answer(r, "Delete", "ok")
        /\ pending' = [pending EXCEPT ![r] = {existing[r]}]
        /\ Goto(r, "announce")
        /\ UNCHANGED <<callVars, notified, listed, unheard, failures>>

(* The row is deleted by name, the object read is announced.                   *)
Delete(r) ==
    LET k == existing[r].key
    IN  /\ pc[r] = "write"
        /\ op[r] = "Delete"
        /\ rows[k] # Nil
        /\ UNCHANGED callVars
        /\ Commit(r, op[r], k, Nil, rows[k], existing[r])

(* Mutant: each item is announced as soon as it has been deleted.              *)
DeleteItemAloud(r) ==
    /\ pc[r] = "collect"
    /\ \E obj \in items[r] :
          LET k == obj.key IN
          /\ rows' = [rows EXCEPT ![k] = Nil]
          /\ wrote' = [wrote EXCEPT ![r] = @ \cup ({rows[k]} \ {Nil})]
          /\ items' = [items EXCEPT ![r] = @ \ {obj}]
          /\ notified' = Append(notified, [type |-> "DELETED", by |-> r, obj |-> obj])
    /\ UNCHANGED <<pc, op, scope, existing, pending, result, failures, listed, after, unheard>>

(* One DELETE of a DeleteCollection, by name; RowsAffected is not looked at.   *)
DeleteItem(r) ==
    /\ pc[r] = "collect"
    /\ \E obj \in items[r] :
          LET k == obj.key IN
          /\ rows' = [rows EXCEPT ![k] = Nil]
          /\ wrote' = [wrote EXCEPT ![r] = @ \cup ({rows[k]} \ {Nil})]
          /\ items' = [items EXCEPT ![r] = @ \ {obj}]
    /\ UNCHANGED <<notified, op, scope, existing, pending, listed, after, unheard>>
    /\ \/ UNCHANGED <<pc, result, failures>>
       \/ /\ Failure
          /\ Answer(r, "DeleteCollection", "Error")
          /\ Goto(r, "done")

(* deleteValidation refuses an item: those before it have gone.                *)
RefuseItem(r) ==
    /\ pc[r] = "collect"
    /\ items[r] # {}
    /\ Return(r, "DeleteCollection", "Invalid")
    /\ UNCHANGED failures

(* All items have gone; what was listed is announced.                          *)
EndCollect(r) ==
    /\ pc[r] = "collect"
    /\ items[r] = {}
    /\ Answer(r, "DeleteCollection", "ok")
    /\ pending' = [pending EXCEPT ![r] = listed[r]]
    /\ after' = [after EXCEPT ![r] = Returned]
    /\ Goto(r, "announce")
    /\ UNCHANGED <<rows, notified, callVars, failures, wrote, listed, unheard>>

--------------------------------------------------------------------------------
(* SELECT pg_notify: a statement of its own, whose error is ignored.           *)

EventTypes == {"ADDED", "MODIFIED", "DELETED"}
Event      == [type: EventTypes, by: Requests, obj: Solution]

TypeOf(operation) == CASE operation = "Create" -> "ADDED"
                       [] operation \in {"Update", "UpdateStatus"} -> "MODIFIED"
                       [] OTHER -> "DELETED"

(* Mutant: go func() { s.db.Exec(pg_notify) }(), for an Update.                *)
AnnounceLater(r) ==
    /\ pending[r] # {}
    /\ UNCHANGED <<rows, callVars, result, failures, historyVars>>
    /\ \/ /\ pc[r] = "announce"
          /\ Goto(r, "done")
          /\ UNCHANGED <<notified, pending>>
       \/ \E obj \in pending[r] :
             /\ pc[r] = "done"
             /\ notified' = Append(notified, [type |-> TypeOf(op[r]), by |-> r, obj |-> obj])
             /\ pending' = [pending EXCEPT ![r] = @ \ {obj}]
             /\ UNCHANGED pc

(* Mutant: DeleteCollection returns from within the loop.                      *)
AnnounceFirst(r) ==
    /\ pc[r] = "announce"
    /\ \E obj \in pending[r] :
          /\ pending' = [pending EXCEPT ![r] = {}]
          /\ \/ /\ notified' = Append(notified, [type |-> TypeOf(op[r]), by |-> r, obj |-> obj])
                /\ UNCHANGED <<failures, unheard>>
             \/ /\ Failure
                /\ unheard' = unheard \cup {<<r, obj>>}
                /\ UNCHANGED notified
    /\ UNCHANGED <<rows, pc, callVars, result, wrote, listed, after>>

Announce(r) ==
    /\ pc[r] = "announce"
    /\ \E obj \in pending[r] :
          /\ pending' = [pending EXCEPT ![r] = @ \ {obj}]
          /\ \/ /\ notified' = Append(notified, [type |-> TypeOf(op[r]), by |-> r, obj |-> obj])
                /\ UNCHANGED <<failures, unheard>>
             \/ /\ Failure
                /\ unheard' = unheard \cup {<<r, obj>>}
                /\ UNCHANGED notified
    /\ UNCHANGED <<rows, pc, callVars, result, wrote, listed, after>>

Respond(r) ==
    /\ pc[r] = "announce"
    /\ pending[r] = {}
    /\ Goto(r, "done")
    /\ UNCHANGED <<rows, notified, callVars, pending, result, failures, historyVars>>

(* The server dies between two statements of the request.                      *)
Crash(r) ==
    /\ pc[r] \in {"write", "collect", "announce"}
    /\ Failure
    /\ Goto(r, "crashed")
    /\ UNCHANGED <<rows, notified, callVars, pending, result, historyVars>>

--------------------------------------------------------------------------------
Start(r) ==
    \/ CreateInvalid(r)
    \/ \E k \in Keys :
          \/ Get(r, k)
          \/ \E spec \in SolutionNames, phase \in Phases : Create(r, k, spec, phase)
          \/ \E operation \in {"Update", "UpdateStatus", "Delete"} : Read(r, k, operation)
    \/ \E sel \in Selectors :
          \/ List(r, sel)
          \/ \E ns \in Namespaces : DeleteCollection(r, ns, sel)

Continue(r) ==
    \/ Refuse(r) \/ Gone(r) \/ StatementFails(r)
    \/ \E spec \in SolutionNames, phase \in Phases : Update(r, spec, phase)
    \/ \E phase \in Phases : UpdateStatus(r, phase)
    \/ Delete(r)
    \/ DeleteItem(r) \/ RefuseItem(r) \/ EndCollect(r)
    \/ Announce(r) \/ Respond(r)
    \/ Crash(r)

AllServed ==
    /\ \A r \in Requests : pc[r] \in {"done", "crashed"}
    /\ UNCHANGED vars

Next == (\E r \in Requests : Start(r) \/ Continue(r)) \/ AllServed

Spec == Init /\ [][Next]_vars

--------------------------------------------------------------------------------
(* Properties.                                                                 *)

(* Every variable keeps its type.                                              *)
TypeOK ==
    /\ rows \in [Keys -> Solution \cup {Nil}]
    /\ notified \in Seq(Event)
    /\ pc \in [Requests -> {"idle", "write", "collect", "announce", "done", "crashed"}]
    /\ op \in [Requests -> Operations \cup {Nil}]
    /\ scope \in [Requests -> Namespaces \cup {Nil}]
    /\ existing \in [Requests -> Solution \cup {Nil}]
    /\ items \in [Requests -> SUBSET Solution]
    /\ pending \in [Requests -> SUBSET Solution]
    /\ result \in [Requests -> Results \cup {Nil}]
    /\ failures \in Nat
    /\ wrote \in [Requests -> SUBSET Solution]
    /\ listed \in [Requests -> SUBSET Solution]
    /\ after \in [Requests -> SUBSET Requests]
    /\ unheard \subseteq Requests \X Solution

(* The namespace of a DeleteCollection that has not been answered.             *)
Collecting == [r \in Requests |-> IF result[r] = Nil THEN scope[r] ELSE Nil]

(* Every version a row of that name was ever given.                            *)
Versions == [k \in Keys |-> {row.rv : row \in {row \in UNION {wrote[r] : r \in Requests} :
                                                row.key = k}}]

Table == INSTANCE SolutionTable WITH collecting <- Collecting, versions <- Versions

(* Though reading, writing and announcing are statements of their own, a write *)
(* changes its own columns of its own row, a row that is gone is not brought   *)
(* back by the write of somebody who had read it, and exactly one of several   *)
(* Deletes, or Creates, of one row is told it succeeded.                       *)
ImplementsTable == Table!Spec

Wrote(r, type, obj) ==
    \E row \in wrote[r] :
        /\ row.key = obj.key
        /\ type # "DELETED" => row.rv = obj.rv /\ row.phase = obj.phase
        /\ op[r] \in {"Create", "Update"} => row.spec = obj.spec

(* An announcement tells of a write that happened, in the columns that write   *)
(* wrote, and no write is announced twice; only DeleteCollection, which looks  *)
(* at no RowsAffected, may announce what somebody else has deleted.            *)
AnnouncedWhatWasWritten ==
    \A i \in DOMAIN notified :
        LET r == notified[i].by IN
        op[r] # "DeleteCollection" =>
            /\ Wrote(r, notified[i].type, notified[i].obj)
            /\ \A j \in DOMAIN notified : notified[j].by = r => j = i

(* Who is answered ok has announced every row it wrote or removed, unless that *)
(* very NOTIFY failed.                                                         *)
OkIsAnnounced ==
    \A r \in Requests :
        (pc[r] = "done" /\ result[r].out = "ok") =>
            \A row \in wrote[r] :
                \/ \E i \in DOMAIN notified : notified[i].by = r /\ notified[i].obj.key = row.key
                \/ \E lost \in unheard : lost[1] = r /\ lost[2].key = row.key

(* What a request announces comes after everything announced by requests that  *)
(* had returned when it wrote: one client's writes are told in their order.    *)
NotifiedInRealTimeOrder ==
    \A i, j \in DOMAIN notified : i < j => notified[j].by \notin after[notified[i].by]

(* Whoever is told of a failure, a DeleteCollection that has removed some of   *)
(* its objects included, has announced nothing.                                *)
FailedIsSilent ==
    \A i \in DOMAIN notified :
        LET r == notified[i].by IN result[r] = Reply(op[r], "ok")

--------------------------------------------------------------------------------
(* What the comments say and the code does not do.                             *)

(* UpdateStatus "updates only the status subresource atomically, preserving    *)
(* spec" (storage.go:34): the object it announces and answers is the row it    *)
(* has written.                                                                *)
UpdateStatusAtomic ==
    \A i \in DOMAIN notified :
        op[notified[i].by] = "UpdateStatus" => notified[i].obj \in wrote[notified[i].by]

(* Update "increments resourceVersion as a monotonic string counter"           *)
(* (docs/superpowers/specs/2026-04-23-aggregated-api-server-design.md:58).     *)
VersionsIncrease ==
    [][ \A k \in Keys :
          (rows[k] # Nil /\ rows'[k] # Nil /\ rows'[k].born = rows[k].born
             /\ rows'[k] # rows[k]) => rows'[k].rv > rows[k].rv ]_vars
================================================================================
