----------------------------- MODULE SolutionTable -----------------------------
(* What the PostgreSQL backend promises: less than SolutionStore.  Rows come   *)
(* and go with the answers of Create and Delete, a write changes no column but *)
(* its own, and who is told NotFound or AlreadyExists is told the truth.  Yet  *)
(* a version is promised only to be one more than some version once stored     *)
(* under that name; the members of a collection go one by one; and each failed *)
(* statement may cost one request its answer: it is told Error, or NotFound,   *)
(* whatever the row, and may have written all the same.                        *)
EXTENDS Solutions

VARIABLES
    rows,        \* [Keys -> Solution or Nil]
    versions,    \* [Keys -> every version that was ever stored there]
    collecting,  \* the namespace a DeleteCollection is busy with, or Nil
    result,      \* [Requests -> what the request is answered, Nil while open]
    failures     \* statements that failed, servers that crashed

vars == <<rows, versions, collecting, result, failures>>

Init ==
    /\ rows = [k \in Keys |-> Nil]
    /\ versions = [k \in Keys |-> {}]
    /\ collecting = [r \in Requests |-> Nil]
    /\ result = [r \in Requests |-> Nil]
    /\ failures = 0

Answer(r, op, out) ==
    /\ result[r] = Nil
    /\ collecting[r] # Nil => op = "DeleteCollection"
    /\ result' = [result EXCEPT ![r] = Reply(op, out)]
    /\ collecting' = [collecting EXCEPT ![r] = Nil]

(* The row changes; the answer is lost if the statement then fails.            *)
Write(r, op, k, row) ==
    /\ rows' = [rows EXCEPT ![k] = row]
    /\ versions' = [versions EXCEPT ![k] = @ \cup {v.rv : v \in {row} \ {Nil}}]
    /\ \/ Answer(r, op, "ok") /\ UNCHANGED failures
       \/ Answer(r, op, "Error") /\ failures' = failures + 1

Create(r, k) ==
    /\ rows[k] = Nil
    /\ \E spec \in SolutionNames, phase \in Phases :
          Write(r, "Create", k, Created(r, k, spec, phase))

Update(r, k) ==
    /\ rows[k] # Nil
    /\ \E spec \in SolutionNames, phase \in Phases, rv \in versions[k] :
          Write(r, "Update", k, [rows[k] EXCEPT !.rv = rv + 1, !.spec = spec, !.phase = phase])

(* Whatever happened to the object since it was read, spec is left alone.      *)
UpdateStatus(r, k) ==
    /\ rows[k] # Nil
    /\ \E phase \in Phases, rv \in versions[k] :
          Write(r, "UpdateStatus", k, [rows[k] EXCEPT !.rv = rv + 1, !.phase = phase])

Delete(r, k) ==
    /\ rows[k] # Nil
    /\ Write(r, "Delete", k, Nil)

Collect(r, ns) ==
    /\ result[r] = Nil
    /\ collecting[r] = Nil
    /\ collecting' = [collecting EXCEPT ![r] = ns]
    /\ UNCHANGED <<rows, versions, result, failures>>

(* One member goes; or it goes and the rest of the collection is given up.     *)
Remove(r, k) ==
    /\ collecting[r] = NamespaceOf(k)
    /\ rows' = [rows EXCEPT ![k] = Nil]
    /\ UNCHANGED versions
    /\ \/ UNCHANGED <<collecting, result, failures>>
       \/ Answer(r, "DeleteCollection", "Error") /\ failures' = failures + 1

Collected(r) ==
    /\ collecting[r] # Nil
    /\ \E out \in {"ok", "Invalid"} : Answer(r, "DeleteCollection", out)
    /\ UNCHANGED <<rows, versions, failures>>

Get(r, k) ==
    /\ rows[k] # Nil
    /\ Answer(r, "Get", "ok")
    /\ UNCHANGED <<rows, versions, failures>>

Conflict(r, k) ==
    /\ rows[k] # Nil
    /\ Answer(r, "Create", "AlreadyExists")
    /\ UNCHANGED <<rows, versions, failures>>

Miss(r, k) ==
    /\ rows[k] = Nil
    /\ \E op \in {"Update", "UpdateStatus", "Delete", "Get"} : Answer(r, op, "NotFound")
    /\ UNCHANGED <<rows, versions, failures>>

Refuse(r) ==
    /\ \E op \in {"Create", "Update", "UpdateStatus", "Delete"} : Answer(r, op, "Invalid")
    /\ UNCHANGED <<rows, versions, failures>>

Fail(r) ==
    /\ failures' = failures + 1
    /\ \E op \in Operations, out \in {"NotFound", "Error"} : Answer(r, op, out)
    /\ UNCHANGED <<rows, versions>>

(* A List changes nothing; one that cannot be answered, of a DeleteCollection  *)
(* too, is refused before anything is removed.                                 *)
List(r) ==
    /\ collecting[r] = Nil
    /\ \/ Answer(r, "List", "ok")
       \/ \E op \in {"List", "DeleteCollection"}, out \in {"Invalid", "Error"} : Answer(r, op, out)
    /\ UNCHANGED <<rows, versions, failures>>

(* A server goes down: the requests it served are never answered.              *)
Crash ==
    /\ failures' = failures + 1
    /\ UNCHANGED <<rows, versions, collecting, result>>

Next ==
    \/ \E r \in Requests :
          \/ \E k \in Keys :
                \/ Create(r, k) \/ Update(r, k) \/ UpdateStatus(r, k) \/ Delete(r, k)
                \/ Remove(r, k) \/ Get(r, k) \/ Conflict(r, k) \/ Miss(r, k)
          \/ \E ns \in Namespaces : Collect(r, ns)
          \/ Collected(r) \/ List(r) \/ Refuse(r) \/ Fail(r)
    \/ Crash

Spec == Init /\ [][Next]_vars
================================================================================
