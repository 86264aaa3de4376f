----------------------------- MODULE SolutionStore -----------------------------
(* What a storage backend promises to the API server: a map from               *)
(* namespace/name to Solutions on which each request takes effect at one       *)
(* instant, answered consistently with the map at that instant.                *)
(* DeleteCollection is the exception: it promises no more than that what it    *)
(* removes lies in its namespace.                                              *)
EXTENDS Solutions

VARIABLES
    store,    \* [Keys -> Solution or Nil]
    result    \* [Requests -> what the request is answered, Nil while open]

vars == <<store, result>>

Init ==
    /\ store = [k \in Keys |-> Nil]
    /\ result = [r \in Requests |-> Nil]

Answer(r, op, out) ==
    /\ result[r] = Nil
    /\ result' = [result EXCEPT ![r] = Reply(op, out)]

Put(k, sol) == store' = [store EXCEPT ![k] = sol]

Create(r, k) ==
    /\ store[k] = Nil
    /\ \E spec \in SolutionNames, phase \in Phases :
          Put(k, [key |-> k, born |-> r, rv |-> 1, spec |-> spec, phase |-> phase])
    /\ Answer(r, "Create", "ok")

Update(r, k) ==
    /\ store[k] # Nil
    /\ \E spec \in SolutionNames, phase \in Phases :
          Put(k, [store[k] EXCEPT !.rv = @ + 1, !.spec = spec, !.phase = phase])
    /\ Answer(r, "Update", "ok")

UpdateStatus(r, k) ==
    /\ store[k] # Nil
    /\ \E phase \in Phases : Put(k, [store[k] EXCEPT !.rv = @ + 1, !.phase = phase])
    /\ Answer(r, "UpdateStatus", "ok")

Delete(r, k) ==
    /\ store[k] # Nil
    /\ Put(k, Nil)
    /\ Answer(r, "Delete", "ok")

DeleteCollection(r, ns) ==
    /\ \E gone \in SUBSET {k \in Keys : NamespaceOf(k) = ns} :
          store' = [k \in Keys |-> IF k \in gone THEN Nil ELSE store[k]]
    /\ \E out \in {"ok", "Invalid"} : Answer(r, "DeleteCollection", out)

(* Requests that leave the map alone.                                          *)
Get(r, k) ==
    /\ store[k] # Nil
    /\ Answer(r, "Get", "ok")
    /\ UNCHANGED store

Conflict(r, k) ==
    /\ store[k] # Nil
    /\ Answer(r, "Create", "AlreadyExists")
    /\ UNCHANGED store

Miss(r, k) ==
    /\ store[k] = Nil
    /\ \E op \in {"Update", "UpdateStatus", "Delete", "Get"} : Answer(r, op, "NotFound")
    /\ UNCHANGED store

Refuse(r) ==
    /\ \E op \in {"Create", "Update", "UpdateStatus", "Delete"} : Answer(r, op, "Invalid")
    /\ UNCHANGED store

Next ==
    \E r \in Requests :
        \/ \E k \in Keys :
              \/ Create(r, k) \/ Update(r, k) \/ UpdateStatus(r, k) \/ Delete(r, k)
              \/ Get(r, k) \/ Conflict(r, k) \/ Miss(r, k)
        \/ \E ns \in Namespaces : DeleteCollection(r, ns)
        \/ Refuse(r)

Spec == Init /\ [][Next]_vars
================================================================================
