------------------------- MODULE PostgresStorageProofs -------------------------
(* Proofs about PostgresStorage for any number of requests, rows, selectors    *)
(* and failures.                                                               *)
EXTENDS PostgresStorage, SolutionsProofs, SequenceTheorems

--------------------------------------------------------------------------------
(* The inductive invariant.                                                    *)

(* Every version of every row there ever was.                                  *)
Written == UNION {wrote[r] : r \in Requests}

(* A row lies under its key and has been written by some request.              *)
RowsWritten ==
    \A k \in Keys : rows[k] # Nil => rows[k].key = k /\ rows[k] \in Written

(* Nothing has come yet of a request that has not written.                     *)
Untouched ==
    \A r \in Requests : pc[r] \in {"idle", "write"} =>
        scope[r] = Nil /\ wrote[r] = {} /\ pending[r] = {} /\ result[r] = Nil

(* What a request has read was a row once, however stale it is now.            *)
ReadWasWritten ==
    \A r \in Requests : pc[r] = "write" =>
        op[r] \in {"Update", "UpdateStatus", "Delete"} /\ existing[r] \in Written

(* What a DeleteCollection deletes and has deleted are objects of its list.    *)
CollectsListed ==
    \A r \in Requests : pc[r] = "collect" =>
        /\ op[r] = "DeleteCollection"
        /\ scope[r] \in Namespaces
        /\ pending[r] = {}
        /\ result[r] = Nil
        /\ items[r] \subseteq listed[r]
        /\ \A obj \in items[r] : NamespaceOf(obj.key) = scope[r]
        /\ \A row \in wrote[r] : \E obj \in listed[r] : obj.key = row.key

IInv ==
    /\ TypeOK
    /\ RowsWritten
    /\ Untouched
    /\ ReadWasWritten
    /\ CollectsListed

(* Nobody has heard of r.                                                      *)
Silent(r) == \A i \in DOMAIN notified : notified[i].by # r

(* Only who has been answered ok is, or is to be, announced.                   *)
SilentUntilOk ==
    \A r \in Requests :
        /\ pc[r] \in {"idle", "write", "collect"} => Silent(r)
        /\ pc[r] = "announce" => result[r] = Reply(op[r], "ok")
        /\ pc[r] = "done" => pending[r] = {}

(* What a single write is to announce is what it wrote, and it has not yet.    *)
PendingWasWritten ==
    \A r \in Requests : (pc[r] = "announce" /\ op[r] # "DeleteCollection") =>
        \A obj \in pending[r] :
            Wrote(r, TypeOf(op[r]), obj) /\ pending[r] = {obj} /\ Silent(r)

(* Every row of a successful request is announced, lost, or still pending.     *)
Heard(r, row) ==
    \/ \E obj \in pending[r] : obj.key = row.key
    \/ \E i \in DOMAIN notified : notified[i].by = r /\ notified[i].obj.key = row.key
    \/ \E lost \in unheard : lost[1] = r /\ lost[2].key = row.key

OkIsHeard ==
    \A r \in Requests : (pc[r] \in {"announce", "done"} /\ result[r].out = "ok") =>
        \A row \in wrote[r] : Heard(r, row)

AfterReturned == \A r \in Requests : after[r] \subseteq Returned

AnnounceInv ==
    /\ SilentUntilOk
    /\ FailedIsSilent
    /\ PendingWasWritten
    /\ AnnouncedWhatWasWritten
    /\ OkIsHeard
    /\ AfterReturned
    /\ NotifiedInRealTimeOrder

--------------------------------------------------------------------------------
LEMMA InitIInv == Init => IInv
<1> SUFFICES ASSUME Init PROVE IInv
  OBVIOUS
<1>1. TypeOK
  <2>1. notified \in Seq(Event) /\ failures \in Nat
    BY DEF Init
  <2> QED
    BY <2>1 DEF Init, TypeOK
<1>2. RowsWritten /\ Untouched /\ ReadWasWritten /\ CollectsListed
  BY DEF Init, RowsWritten, Untouched, ReadWasWritten, CollectsListed
<1> QED
  BY <1>1, <1>2 DEF IInv

--------------------------------------------------------------------------------
(* The parts the actions share.                                                *)

LEMMA AnswerType ==
  ASSUME TypeOK, NEW r \in Requests, NEW operation \in Operations,
         NEW out \in Outcomes, Answer(r, operation, out)
  PROVE  /\ result' \in [Requests -> Results \cup {Nil}]
         /\ result'[r] = Reply(operation, out)
         /\ result'[r].out = out
         /\ \A s \in Requests : s # r => result'[s] = result[s]
  BY ReplyType DEF TypeOK, Answer

Places == {"idle", "write", "collect", "announce", "done", "crashed"}

LEMMA GotoType ==
  ASSUME TypeOK, NEW r \in Requests, NEW label \in Places, Goto(r, label)
  PROVE  /\ pc' \in [Requests -> Places]
         /\ pc'[r] = label
         /\ \A s \in Requests : s # r => pc'[s] = pc[s]
  BY DEF TypeOK, Goto, Places

LEMMA FailureType ==
  ASSUME TypeOK, Failure \/ UNCHANGED failures
  PROVE  failures' \in Nat
  BY DEF TypeOK, Failure

(* History: what has been written remains so.                                  *)
LEMMA WrittenGrows ==
  ASSUME TypeOK, NEW r \in Requests, NEW X \in SUBSET Solution, wrote[r] \subseteq X,
         wrote' = [wrote EXCEPT ![r] = X]
  PROVE  /\ wrote' \in [Requests -> SUBSET Solution]
         /\ wrote'[r] = X
         /\ \A s \in Requests : s # r => wrote'[s] = wrote[s]
         /\ Written' = Written \cup X
<1>1. /\ wrote' \in [Requests -> SUBSET Solution]
      /\ wrote'[r] = X
      /\ \A s \in Requests : s # r => wrote'[s] = wrote[s]
  BY DEF TypeOK
<1>2. ASSUME NEW row, row \in Written' PROVE row \in Written \cup X
  BY <1>1, <1>2 DEF Written
<1>3. ASSUME NEW row, row \in Written \cup X PROVE row \in Written'
  BY <1>1, <1>3 DEF Written
<1> QED
  BY <1>1, <1>2, <1>3

LEMMA WrittenType == ASSUME TypeOK PROVE Written \subseteq Solution
  BY DEF TypeOK, Written

(* A row that the table holds.                                                 *)
LEMMA RowType ==
  ASSUME IInv, NEW k \in Keys, rows[k] # Nil
  PROVE  rows[k] \in Solution /\ rows[k].key = k /\ rows[k] \in Written
  BY DEF IInv, TypeOK, RowsWritten

LEMMA ReadType ==
  ASSUME IInv, NEW r \in Requests, pc[r] = "write"
  PROVE  /\ existing[r] \in Solution
         /\ existing[r].key \in Keys
         /\ existing[r] \in Written
  BY WrittenType DEF IInv, ReadWasWritten, Solution

--------------------------------------------------------------------------------
(* Kinds of steps: a request returns, ok only if it had nothing to write ...   *)
Returns(r) ==
    \E operation \in Operations, out \in Outcomes :
        /\ pc[r] \in {"idle", "write", "collect"}
        /\ out = "ok" => pc[r] = "idle"
        /\ Return(r, operation, out)
        /\ Failure \/ UNCHANGED failures

(* ... has read the row it is to write ...                                     *)
Reads(r) ==
    \E operation \in {"Update", "UpdateStatus", "Delete"}, k \in Keys :
        /\ pc[r] = "idle"
        /\ rows[k] # Nil
        /\ op' = [op EXCEPT ![r] = operation]
        /\ existing' = [existing EXCEPT ![r] = rows[k]]
        /\ Goto(r, "write")
        /\ UNCHANGED <<rows, notified, scope, items, pending, result, failures,
                       wrote, listed, after, unheard>>

(* ... has listed what it is to delete ...                                     *)
Lists(r) ==
    \E ns \in Namespaces, list \in SUBSET Solution :
        /\ pc[r] = "idle"
        /\ \A obj \in list : NamespaceOf(obj.key) = ns
        /\ op' = [op EXCEPT ![r] = "DeleteCollection"]
        /\ scope' = [scope EXCEPT ![r] = ns]
        /\ items' = [items EXCEPT ![r] = list]
        /\ listed' = [listed EXCEPT ![r] = list]
        /\ Goto(r, "collect")
        /\ UNCHANGED <<rows, notified, existing, pending, result, failures,
                       wrote, after, unheard>>

(* ... or writes the row of k, and is to announce sol.                         *)
CommitStep(r, operation, k, row, touched, sol) ==
    /\ pc[r] \in {"idle", "write"}
    /\ operation \in {"Create", "Update", "UpdateStatus", "Delete"}
    /\ k \in Keys
    /\ row \in Solution \cup {Nil}
    /\ touched \in Solution /\ touched.key = k
    /\ sol \in Solution /\ sol.key = k
    /\ row = IF operation = "Delete" THEN Nil ELSE touched
    /\ operation # "Delete" => touched.rv = sol.rv /\ touched.phase = sol.phase
    /\ operation \in {"Create", "Update"} => touched.spec = sol.spec
    /\ op' = [op EXCEPT ![r] = operation]
    /\ UNCHANGED <<scope, existing, items>>
    /\ Commit(r, operation, k, row, touched, sol)

Commits(r) ==
    \E operation \in Operations, k \in Keys, row \in Solution \cup {Nil},
       touched \in Solution, sol \in Solution :
          CommitStep(r, operation, k, row, touched, sol)

--------------------------------------------------------------------------------
(* Each kind of step preserves the invariant.                                  *)

LEMMA ReturnIInv ==
  ASSUME IInv, NEW r \in Requests, Returns(r)
  PROVE  IInv'
<1> PICK operation \in Operations, out \in Outcomes :
        Return(r, operation, out) /\ (Failure \/ UNCHANGED failures)
  BY DEF Returns
<1>1. /\ result' \in [Requests -> Results \cup {Nil}]
      /\ \A s \in Requests : s # r => result'[s] = result[s]
  BY AnswerType DEF Return, IInv
<1>2. /\ pc' \in [Requests -> Places] /\ pc'[r] = "done"
      /\ \A s \in Requests : s # r => pc'[s] = pc[s]
  BY GotoType DEF Return, IInv, Places
<1>3. UNCHANGED <<rows, notified, op, scope, existing, items, pending, wrote, listed,
                  after, unheard>>
  BY DEF Return, callVars, historyVars
<1>4. failures' \in Nat
  BY FailureType DEF IInv
<1>5. TypeOK'
  BY <1>1, <1>2, <1>3, <1>4 DEF IInv, TypeOK, Places
<1>6. RowsWritten'
  BY <1>3 DEF IInv, RowsWritten, Written
<1>7. Untouched' /\ ReadWasWritten' /\ CollectsListed'
  BY <1>1, <1>2, <1>3 DEF IInv, Untouched, ReadWasWritten, CollectsListed, Written
<1> QED
  BY <1>5, <1>6, <1>7 DEF IInv

LEMMA CommitIInv ==
  ASSUME IInv, NEW r \in Requests, Commits(r)
  PROVE  IInv'
<1> PICK operation \in Operations, k \in Keys, row \in Solution \cup {Nil},
         touched \in Solution, sol \in Solution :
           CommitStep(r, operation, k, row, touched, sol)
  BY DEF Commits
<1> USE DEF CommitStep
<1>1. /\ rows' \in [Keys -> Solution \cup {Nil}]
      /\ rows'[k] = row
      /\ \A j \in Keys : j # k => rows'[j] = rows[j]
  BY DEF Commit, IInv, TypeOK
<1>2. /\ wrote' \in [Requests -> SUBSET Solution]
      /\ \A s \in Requests : s # r => wrote'[s] = wrote[s]
      /\ Written' = Written \cup {touched}
  <2>1. wrote[r] \subseteq {touched} /\ wrote' = [wrote EXCEPT ![r] = {touched}]
    BY DEF Commit, IInv, Untouched
  <2>2. {touched} \in SUBSET Solution
    OBVIOUS
  <2> QED
    BY <2>1, <2>2, WrittenGrows DEF IInv
<1>3. \E label \in {"announce", "done"} : Goto(r, label)
  BY DEF Commit
<1>4. /\ pc' \in [Requests -> Places] /\ pc'[r] \in {"announce", "done"}
      /\ \A s \in Requests : s # r => pc'[s] = pc[s]
  BY <1>3, GotoType DEF IInv, Places
<1>5. \E out \in {"ok", "Error"} : Answer(r, operation, out)
  BY DEF Commit
<1>6. /\ result' \in [Requests -> Results \cup {Nil}]
      /\ \A s \in Requests : s # r => result'[s] = result[s]
  BY <1>5, AnswerType DEF IInv, Outcomes
<1>7. /\ pending' \in [Requests -> SUBSET Solution]
      /\ \A s \in Requests : s # r => pending'[s] = pending[s]
  BY DEF Commit, IInv, TypeOK
<1>8. op' \in [Requests -> Operations \cup {Nil}] /\ \A s \in Requests : s # r => op'[s] = op[s]
  BY DEF IInv, TypeOK
<1>9. after' \in [Requests -> SUBSET Requests] /\ UNCHANGED <<notified, listed, unheard>>
  BY DEF Commit, IInv, TypeOK, Returned
<1>10. failures' \in Nat
  BY FailureType DEF Commit, IInv
<1>11. TypeOK'
  BY <1>1, <1>2, <1>4, <1>6, <1>7, <1>8, <1>9, <1>10 DEF IInv, TypeOK, Places
<1>12. RowsWritten'
  BY <1>1, <1>2 DEF IInv, RowsWritten
<1>13. Untouched' /\ ReadWasWritten' /\ CollectsListed'
  BY <1>2, <1>4, <1>6, <1>7, <1>8, <1>9 DEF IInv, Untouched, ReadWasWritten, CollectsListed
<1> QED
  BY <1>11, <1>12, <1>13 DEF IInv

LEMMA ReadIInv ==
  ASSUME IInv, NEW r \in Requests, Reads(r)
  PROVE  IInv'
<1> PICK operation \in {"Update", "UpdateStatus", "Delete"}, k \in Keys :
        /\ pc[r] = "idle"
        /\ rows[k] # Nil
        /\ op' = [op EXCEPT ![r] = operation]
        /\ existing' = [existing EXCEPT ![r] = rows[k]]
  BY DEF Reads
<1>1. rows[k] \in Solution /\ rows[k] \in Written
  BY RowType
<1>2. /\ pc' \in [Requests -> Places] /\ pc'[r] = "write"
      /\ \A s \in Requests : s # r => pc'[s] = pc[s]
  BY GotoType DEF Reads, IInv, Places
<1>3. /\ op' \in [Requests -> Operations \cup {Nil}] /\ op'[r] = operation
      /\ existing' \in [Requests -> Solution \cup {Nil}] /\ existing'[r] = rows[k]
      /\ \A s \in Requests : s # r => op'[s] = op[s] /\ existing'[s] = existing[s]
  BY <1>1 DEF IInv, TypeOK, Operations
<1>4. UNCHANGED <<rows, notified, scope, items, pending, result, failures,
                  wrote, listed, after, unheard>>
  BY DEF Reads
<1>5. TypeOK'
  BY <1>2, <1>3, <1>4 DEF IInv, TypeOK, Places
<1>6. RowsWritten' /\ Untouched' /\ CollectsListed'
  BY <1>2, <1>3, <1>4 DEF IInv, RowsWritten, Untouched, CollectsListed, Written
<1>7. ReadWasWritten'
  BY <1>1, <1>2, <1>3, <1>4 DEF IInv, ReadWasWritten, Written
<1> QED
  BY <1>5, <1>6, <1>7 DEF IInv

LEMMA ListIInv ==
  ASSUME IInv, NEW r \in Requests, Lists(r)
  PROVE  IInv'
<1> PICK ns \in Namespaces, list \in SUBSET Solution :
        /\ pc[r] = "idle"
        /\ \A obj \in list : NamespaceOf(obj.key) = ns
        /\ op' = [op EXCEPT ![r] = "DeleteCollection"]
        /\ scope' = [scope EXCEPT ![r] = ns]
        /\ items' = [items EXCEPT ![r] = list]
        /\ listed' = [listed EXCEPT ![r] = list]
  BY DEF Lists
<1>1. /\ pc' \in [Requests -> Places] /\ pc'[r] = "collect"
      /\ \A s \in Requests : s # r => pc'[s] = pc[s]
  BY GotoType DEF Lists, IInv, Places
<1>2. /\ items' \in [Requests -> SUBSET Solution] /\ items'[r] = list
      /\ listed' \in [Requests -> SUBSET Solution] /\ listed'[r] = list
      /\ scope' \in [Requests -> Namespaces \cup {Nil}] /\ scope'[r] = ns
      /\ op' \in [Requests -> Operations \cup {Nil}] /\ op'[r] = "DeleteCollection"
      /\ \A s \in Requests : s # r => /\ items'[s] = items[s] /\ listed'[s] = listed[s]
                                      /\ scope'[s] = scope[s] /\ op'[s] = op[s]
  BY DEF IInv, TypeOK, Operations
<1>3. UNCHANGED <<rows, notified, existing, pending, result, failures, wrote, after, unheard>>
  BY DEF Lists
<1>4. TypeOK'
  BY <1>1, <1>2, <1>3 DEF IInv, TypeOK, Places
<1>5. RowsWritten' /\ Untouched' /\ ReadWasWritten'
  BY <1>1, <1>2, <1>3 DEF IInv, RowsWritten, Untouched, ReadWasWritten, Written
<1>6. CollectsListed'
  BY <1>1, <1>2, <1>3 DEF IInv, Untouched, CollectsListed
<1> QED
  BY <1>4, <1>5, <1>6 DEF IInv

LEMMA DeleteItemIInv ==
  ASSUME IInv, NEW r \in Requests, DeleteItem(r)
  PROVE  IInv'
<1>1. PICK obj \in items[r] :
        /\ rows' = [rows EXCEPT ![obj.key] = Nil]
        /\ wrote' = [wrote EXCEPT ![r] = @ \cup ({rows[obj.key]} \ {Nil})]
        /\ items' = [items EXCEPT ![r] = @ \ {obj}]
  BY DEF DeleteItem
<1> DEFINE k    == obj.key
           gone == {rows[k]} \ {Nil}
<1>2. /\ pc[r] = "collect"
      /\ obj \in listed[r] /\ obj \in Solution /\ k \in Keys
      /\ UNCHANGED <<notified, op, scope, existing, pending, listed, after, unheard>>
  BY DEF DeleteItem, IInv, CollectsListed, TypeOK, Solution
<1>3. gone \in SUBSET Solution /\ \A row \in gone : row.key = k
  BY <1>2, RowType
<1> HIDE DEF gone
<1>4. /\ wrote' \in [Requests -> SUBSET Solution]
      /\ wrote'[r] = wrote[r] \cup gone
      /\ \A s \in Requests : s # r => wrote'[s] = wrote[s]
      /\ Written' = Written \cup (wrote[r] \cup gone)
  <2>1. wrote[r] \cup gone \in SUBSET Solution /\ wrote[r] \subseteq wrote[r] \cup gone
    BY <1>3 DEF IInv, TypeOK
  <2>2. wrote' = [wrote EXCEPT ![r] = wrote[r] \cup gone]
    BY <1>1 DEF gone
  <2> QED
    BY <2>1, <2>2, WrittenGrows DEF IInv
<1>5. /\ rows' \in [Keys -> Solution \cup {Nil}]
      /\ \A j \in Keys : rows'[j] # Nil => rows'[j] = rows[j]
  BY <1>1, <1>2 DEF IInv, TypeOK
<1>6. /\ items' \in [Requests -> SUBSET Solution]
      /\ items'[r] \subseteq items[r]
      /\ \A s \in Requests : s # r => items'[s] = items[s]
  BY <1>1 DEF IInv, TypeOK
<1>7. /\ pc' \in [Requests -> Places] /\ pc'[r] \in {"collect", "done"}
      /\ result' \in [Requests -> Results \cup {Nil}]
      /\ pc'[r] = "collect" => result'[r] = result[r]
      /\ \A s \in Requests : s # r => pc'[s] = pc[s] /\ result'[s] = result[s]
      /\ failures' \in Nat
  <2>1. CASE UNCHANGED <<pc, result, failures>>
    BY <1>2, <2>1 DEF IInv, TypeOK, Places
  <2>2. CASE Failure /\ Answer(r, "DeleteCollection", "Error") /\ Goto(r, "done")
    <3>1. /\ "DeleteCollection" \in Operations /\ "Error" \in Outcomes
          /\ "done" \in Places
      BY DEF Operations, Outcomes, Places
    <3>2. /\ pc' \in [Requests -> Places] /\ pc'[r] = "done"
          /\ \A s \in Requests : s # r => pc'[s] = pc[s]
      BY <2>2, <3>1, GotoType DEF IInv
    <3>3. /\ result' \in [Requests -> Results \cup {Nil}]
          /\ \A s \in Requests : s # r => result'[s] = result[s]
      BY <2>2, <3>1, AnswerType DEF IInv
    <3> QED
      BY <2>2, <3>2, <3>3, FailureType DEF IInv
  <2> QED
    BY <2>1, <2>2 DEF DeleteItem
<1>8. TypeOK'
  BY <1>2, <1>4, <1>5, <1>6, <1>7 DEF IInv, TypeOK, Places
<1>9. RowsWritten' /\ Untouched' /\ ReadWasWritten'
  BY <1>2, <1>4, <1>5, <1>7 DEF IInv, RowsWritten, Untouched, ReadWasWritten
<1>10. CollectsListed'
  BY <1>2, <1>3, <1>4, <1>6, <1>7 DEF IInv, CollectsListed
<1> QED
  BY <1>8, <1>9, <1>10 DEF IInv

LEMMA EndCollectIInv ==
  ASSUME IInv, NEW r \in Requests, EndCollect(r)
  PROVE  IInv'
<1>1. "DeleteCollection" \in Operations /\ "ok" \in Outcomes /\ "announce" \in Places
  BY DEF Operations, Outcomes, Places
<1>2. /\ result' \in [Requests -> Results \cup {Nil}]
      /\ \A s \in Requests : s # r => result'[s] = result[s]
  BY <1>1, AnswerType DEF EndCollect, IInv
<1>3. /\ pc' \in [Requests -> Places] /\ pc'[r] = "announce"
      /\ \A s \in Requests : s # r => pc'[s] = pc[s]
  BY <1>1, GotoType DEF EndCollect, IInv
<1>4. /\ pending' \in [Requests -> SUBSET Solution]
      /\ after' \in [Requests -> SUBSET Requests]
      /\ \A s \in Requests : s # r => pending'[s] = pending[s]
  BY DEF EndCollect, IInv, TypeOK, Returned
<1>5. UNCHANGED <<rows, notified, op, scope, existing, items, failures, wrote, listed, unheard>>
  BY DEF EndCollect, callVars
<1>6. TypeOK'
  BY <1>2, <1>3, <1>4, <1>5 DEF IInv, TypeOK, Places
<1> QED
  BY <1>2, <1>3, <1>4, <1>5, <1>6
     DEF IInv, RowsWritten, Untouched, ReadWasWritten, CollectsListed, Written

(* A request that announces, or ends, without a further change to its row.     *)
LEMMA MoveIInv ==
  ASSUME IInv, NEW r \in Requests, NEW label \in {"announce", "done", "crashed"},
         Goto(r, label),
         notified' \in Seq(Event),
         pending' \in [Requests -> SUBSET Solution],
         \A s \in Requests : s # r => pending'[s] = pending[s],
         failures' \in Nat,
         unheard' \subseteq Requests \X Solution,
         UNCHANGED <<rows, op, scope, existing, items, result, wrote, listed, after>>
  PROVE  IInv'
<1>1. /\ pc' \in [Requests -> Places] /\ pc'[r] = label
      /\ \A s \in Requests : s # r => pc'[s] = pc[s]
  BY GotoType DEF IInv, Places
<1>2. TypeOK'
  BY <1>1 DEF IInv, TypeOK, Places
<1> QED
  BY <1>1, <1>2 DEF IInv, RowsWritten, Untouched, ReadWasWritten, CollectsListed, Written

LEMMA AnnounceType ==
  ASSUME IInv, NEW r \in Requests, NEW obj \in pending[r]
  PROVE  [type |-> TypeOf(op[r]), by |-> r, obj |-> obj] \in Event
<1>1. obj \in Solution
  BY DEF IInv, TypeOK
<1>2. TypeOf(op[r]) \in EventTypes
  BY DEF TypeOf, EventTypes
<1> QED
  BY <1>1, <1>2 DEF Event

LEMMA AnnounceIInv ==
  ASSUME IInv, NEW r \in Requests, Announce(r)
  PROVE  IInv'
<1>1. PICK obj \in pending[r] :
        /\ pending' = [pending EXCEPT ![r] = @ \ {obj}]
        /\ \/ /\ notified' = Append(notified, [type |-> TypeOf(op[r]), by |-> r, obj |-> obj])
              /\ UNCHANGED <<failures, unheard>>
           \/ /\ Failure
              /\ unheard' = unheard \cup {<<r, obj>>}
              /\ UNCHANGED notified
  BY DEF Announce
<1>2. notified' \in Seq(Event)
  <2> DEFINE event == [type |-> TypeOf(op[r]), by |-> r, obj |-> obj]
  <2>1. event \in Event /\ notified \in Seq(Event)
    BY AnnounceType DEF IInv, TypeOK
  <2> HIDE DEF event
  <2>2. notified' = notified \/ notified' = Append(notified, event)
    BY <1>1 DEF event
  <2> QED
    BY <2>1, <2>2
<1>3. unheard' \subseteq Requests \X Solution /\ failures' \in Nat
  BY <1>1, FailureType DEF IInv, TypeOK
<1>4. /\ pending' \in [Requests -> SUBSET Solution]
      /\ \A s \in Requests : s # r => pending'[s] = pending[s]
  BY <1>1 DEF IInv, TypeOK
<1>5. /\ pc[r] = "announce"
      /\ UNCHANGED <<rows, pc, op, scope, existing, items, result, wrote, listed, after>>
  BY DEF Announce, callVars
<1>6. Goto(r, "announce")
  BY <1>5 DEF Goto, IInv, TypeOK
<1> QED
  BY <1>2, <1>3, <1>4, <1>5, <1>6, MoveIInv

LEMMA EndIInv ==
  ASSUME IInv, NEW r \in Requests, Respond(r) \/ Crash(r)
  PROVE  IInv'
<1>1. PICK label \in {"done", "crashed"} : Goto(r, label)
  BY DEF Respond, Crash
<1>2. failures' \in Nat
  BY FailureType DEF Respond, Crash, IInv
<1>3. UNCHANGED <<rows, notified, op, scope, existing, items, pending, result,
                  wrote, listed, after, unheard>>
  BY DEF Respond, Crash, callVars, historyVars
<1>4. /\ notified' \in Seq(Event)
      /\ pending' \in [Requests -> SUBSET Solution]
      /\ unheard' \subseteq Requests \X Solution
  BY <1>3 DEF IInv, TypeOK
<1> QED
  BY <1>1, <1>2, <1>3, <1>4, MoveIInv

--------------------------------------------------------------------------------
(* What each action is.                                                        *)

(* The rows that SQL finds lie in the namespace it was asked for.              *)
LEMMA SqlListType ==
  ASSUME IInv, NEW ns, NEW sel
  PROVE  /\ SqlList(rows, ns, sel) \subseteq Solution
         /\ \A row \in SqlList(rows, ns, sel) : NamespaceOf(row.key) = ns
<1>1. Objects(rows, All) \subseteq Solution
  BY DEF Objects, IInv, TypeOK
<1> QED
  BY <1>1 DEF SqlList, Where

LEMMA CreateCommits ==
  ASSUME IInv, NEW r \in Requests, NEW k \in Keys, NEW spec \in SolutionNames,
         NEW phase \in Phases, Create(r, k, spec, phase)
  PROVE  Commits(r) \/ Returns(r)
<1>1. {"AlreadyExists", "Error"} \subseteq Outcomes /\ "Create" \in Operations
  BY DEF Operations, Outcomes
<1>2. CASE \E out \in {"AlreadyExists", "Error"} :
              Return(r, "Create", out) /\ (Failure \/ UNCHANGED failures)
  BY <1>1, <1>2 DEF Create, Returns
<1>3. CASE /\ op' = [op EXCEPT ![r] = "Create"]
           /\ UNCHANGED <<scope, existing, items>>
           /\ LET sol == Created(r, k, spec, phase) IN Commit(r, "Create", k, sol, sol, sol)
  <2> DEFINE sol == Created(r, k, spec, phase)
  <2>1. sol \in Solution /\ sol.key = k
    BY CreatedType
  <2> HIDE DEF sol
  <2>2. CommitStep(r, "Create", k, sol, sol, sol)
    BY <1>3, <2>1 DEF Create, CommitStep, sol
  <2> QED
    BY <1>1, <2>1, <2>2 DEF Commits
<1> QED
  BY <1>2, <1>3 DEF Create

LEMMA SolutionVersion == ASSUME NEW o \in Solution PROVE o.rv \in Version /\ o.key \in Keys
  BY DEF Solution

(* The operation goes on under the name it had.                                *)
LEMMA SameOperation ==
  ASSUME IInv, NEW r \in Requests, UNCHANGED callVars
  PROVE  op' = [op EXCEPT ![r] = op[r]] /\ UNCHANGED <<scope, existing, items>>
  BY DEF IInv, TypeOK, callVars

(* The row as the UPDATE of Update, or of UpdateStatus, leaves it.              *)
Overwritten(row, rv, spec, phase) == [row EXCEPT !.rv = rv, !.spec = spec, !.phase = phase]
StatusOverwritten(row, rv, phase) == [row EXCEPT !.rv = rv, !.phase = phase]

LEMMA UpdateCommitStep ==
  ASSUME IInv, NEW r \in Requests, NEW spec \in SolutionNames, NEW phase \in Phases,
         Update(r, spec, phase)
  PROVE  LET k   == existing[r].key
             sol == Updated(existing[r], spec, phase)
             row == Overwritten(rows[k], existing[r].rv + 1, spec, phase)
         IN  CommitStep(r, "Update", k, row, row, sol)
<1> DEFINE k   == existing[r].key
           sol == Updated(existing[r], spec, phase)
           row == [rows[k] EXCEPT !.rv = sol.rv, !.spec = spec, !.phase = phase]
<1>1. /\ pc[r] = "write" /\ op[r] = "Update" /\ rows[k] # Nil
      /\ Commit(r, op[r], k, row, row, sol) /\ UNCHANGED callVars
  BY DEF Update
<1>2. existing[r] \in Solution /\ k \in Keys
  BY <1>1, ReadType
<1>3. /\ sol \in Solution /\ sol.key = k /\ sol.rv \in Version
      /\ sol.rv = existing[r].rv + 1 /\ sol.spec = spec /\ sol.phase = phase
  BY <1>2, UpdatedType, SolutionVersion
<1>4. rows[k] \in Solution /\ rows[k].key = k
  BY <1>1, <1>2, RowType
<1> HIDE DEF sol, k
<1>5. /\ row \in Solution /\ row.key = k
      /\ row.rv = sol.rv /\ row.spec = spec /\ row.phase = phase
  BY <1>3, <1>4 DEF Solution
<1> HIDE DEF row
<1>6. CommitStep(r, "Update", k, row, row, sol)
  BY <1>1, <1>2, <1>3, <1>5, SameOperation DEF CommitStep
<1> QED
  BY <1>3, <1>6 DEF k, sol, row, Overwritten

LEMMA UpdateStatusCommitStep ==
  ASSUME IInv, NEW r \in Requests, NEW phase \in Phases, UpdateStatus(r, phase)
  PROVE  LET k   == existing[r].key
             sol == StatusUpdated(existing[r], phase)
             row == StatusOverwritten(rows[k], existing[r].rv + 1, phase)
         IN  CommitStep(r, "UpdateStatus", k, row, row, sol)
<1> DEFINE k   == existing[r].key
           sol == StatusUpdated(existing[r], phase)
           row == [rows[k] EXCEPT !.rv = sol.rv, !.phase = phase]
<1>1. /\ pc[r] = "write" /\ op[r] = "UpdateStatus" /\ rows[k] # Nil
      /\ Commit(r, op[r], k, row, row, sol) /\ UNCHANGED callVars
  BY DEF UpdateStatus
<1>2. existing[r] \in Solution /\ k \in Keys
  BY <1>1, ReadType
<1>3. /\ sol \in Solution /\ sol.key = k /\ sol.rv \in Version
      /\ sol.rv = existing[r].rv + 1 /\ sol.phase = phase
  BY <1>2, StatusUpdatedType, SolutionVersion
<1>4. rows[k] \in Solution /\ rows[k].key = k
  BY <1>1, <1>2, RowType
<1> HIDE DEF sol, k
<1>5. /\ row \in Solution /\ row.key = k
      /\ row.rv = sol.rv /\ row.phase = phase
  BY <1>3, <1>4 DEF Solution
<1> HIDE DEF row
<1>6. CommitStep(r, "UpdateStatus", k, row, row, sol)
  BY <1>1, <1>2, <1>3, <1>5, SameOperation DEF CommitStep
<1> QED
  BY <1>3, <1>6 DEF k, sol, row, StatusOverwritten

LEMMA DeleteCommitStep ==
  ASSUME IInv, NEW r \in Requests, Delete(r)
  PROVE  CommitStep(r, "Delete", existing[r].key, Nil, rows[existing[r].key], existing[r])
<1> DEFINE k == existing[r].key
<1>1. /\ pc[r] = "write" /\ op[r] = "Delete" /\ rows[k] # Nil
      /\ Commit(r, op[r], k, Nil, rows[k], existing[r]) /\ UNCHANGED callVars
  BY DEF Delete
<1>2. existing[r] \in Solution /\ k \in Keys
  BY <1>1, ReadType
<1>3. rows[k] \in Solution /\ rows[k].key = k
  BY <1>1, <1>2, RowType
<1> HIDE DEF k
<1> QED
  BY <1>1, <1>2, <1>3, SameOperation DEF CommitStep, k

LEMMA CommitCommits ==
  ASSUME NEW r, NEW operation, NEW k, NEW row, NEW touched, NEW sol,
         CommitStep(r, operation, k, row, touched, sol)
  PROVE  Commits(r)
<1>1. operation \in Operations /\ k \in Keys /\ row \in Solution \cup {Nil}
      /\ touched \in Solution /\ sol \in Solution
  BY DEF CommitStep, Operations
<1> QED
  BY <1>1 DEF Commits

LEMMA StartKinds ==
  ASSUME IInv, NEW r \in Requests, Start(r)
  PROVE  Returns(r) \/ Reads(r) \/ Lists(r) \/ Commits(r)
<1> USE DEF Returns, Operations, Outcomes
<1>1. CASE CreateInvalid(r)
  BY <1>1 DEF CreateInvalid
<1>2. ASSUME NEW k \in Keys, Get(r, k) PROVE Returns(r)
  BY <1>2 DEF Get
<1>3. ASSUME NEW k \in Keys, NEW spec \in SolutionNames, NEW phase \in Phases,
             Create(r, k, spec, phase)
      PROVE  Commits(r) \/ Returns(r)
  BY <1>3, CreateCommits
<1>4. ASSUME NEW k \in Keys, NEW operation \in {"Update", "UpdateStatus", "Delete"},
             Read(r, k, operation)
      PROVE  Returns(r) \/ Reads(r)
  BY <1>4 DEF Read, Reads, historyVars
<1>5. ASSUME NEW sel, List(r, sel) PROVE Returns(r)
  BY <1>5 DEF List, ListRefused
<1>6. ASSUME NEW sel, NEW ns \in Namespaces, DeleteCollection(r, ns, sel)
      PROVE  Returns(r) \/ Lists(r)
  <2>1. CASE \E out \in {"Invalid", "Error"} :
                Return(r, "DeleteCollection", out) /\ (Failure \/ UNCHANGED failures)
    BY <1>6, <2>1 DEF DeleteCollection
  <2>2. CASE /\ op' = [op EXCEPT ![r] = "DeleteCollection"]
             /\ scope' = [scope EXCEPT ![r] = ns]
             /\ items' = [items EXCEPT ![r] = SqlList(rows, ns, sel)]
             /\ listed' = [listed EXCEPT ![r] = SqlList(rows, ns, sel)]
             /\ Goto(r, "collect")
             /\ UNCHANGED <<rows, notified, existing, pending, result, failures,
                            wrote, after, unheard>>
    BY <1>6, <2>2, SqlListType DEF DeleteCollection, Lists
  <2> QED
    BY <1>6, <2>1, <2>2 DEF DeleteCollection, ListRefused
<1> QED
  BY <1>1, <1>2, <1>3, <1>4, <1>5, <1>6 DEF Start

LEMMA ContinueKinds ==
  ASSUME IInv, NEW r \in Requests, Continue(r)
  PROVE  \/ Returns(r) \/ Commits(r)
         \/ DeleteItem(r) \/ EndCollect(r)
         \/ Announce(r) \/ Respond(r) \/ Crash(r)
<1>1. pc[r] \in {"write", "collect"} => op[r] \in Operations
  BY DEF IInv, ReadWasWritten, CollectsListed, Operations
<1>2. CASE Refuse(r) \/ Gone(r) \/ StatementFails(r) \/ RefuseItem(r)
  BY <1>1, <1>2 DEF Refuse, Gone, StatementFails, RefuseItem, Returns, Operations, Outcomes
<1>3. ASSUME NEW spec \in SolutionNames, NEW phase \in Phases, Update(r, spec, phase)
      PROVE  Commits(r)
  BY <1>3, UpdateCommitStep, CommitCommits
<1>4. ASSUME NEW phase \in Phases, UpdateStatus(r, phase) PROVE Commits(r)
  BY <1>4, UpdateStatusCommitStep, CommitCommits
<1>5. CASE Delete(r)
  BY <1>5, DeleteCommitStep, CommitCommits
<1> QED
  BY <1>2, <1>3, <1>4, <1>5 DEF Continue

(* Every step is of one of the kinds.                                          *)
Kinds(r) ==
    \/ Returns(r) \/ Reads(r) \/ Lists(r) \/ Commits(r)
    \/ DeleteItem(r) \/ EndCollect(r)
    \/ Announce(r) \/ Respond(r) \/ Crash(r)

LEMMA NextKinds ==
  ASSUME IInv, [Next]_vars
  PROVE  UNCHANGED vars \/ \E r \in Requests : Kinds(r)
<1>1. ASSUME NEW r \in Requests, Start(r) \/ Continue(r) PROVE Kinds(r)
  BY <1>1, StartKinds, ContinueKinds DEF Kinds
<1> QED
  BY <1>1 DEF Next, AllServed

LEMMA NextIInv == IInv /\ [Next]_vars => IInv'
<1> SUFFICES ASSUME IInv, [Next]_vars PROVE IInv'
  OBVIOUS
<1>1. CASE UNCHANGED vars
  BY <1>1 DEF vars, callVars, historyVars, IInv, TypeOK, RowsWritten, Untouched,
     ReadWasWritten, CollectsListed, Written
<1>2. ASSUME NEW r \in Requests, Kinds(r) PROVE IInv'
  BY <1>2, ReturnIInv, ReadIInv, ListIInv, CommitIInv, DeleteItemIInv, EndCollectIInv,
     AnnounceIInv, EndIInv DEF Kinds
<1> QED
  BY <1>1, <1>2, NextKinds

LEMMA Invariance == Spec => []IInv
  BY InitIInv, NextIInv, PTL DEF Spec

(* Every variable keeps its type: in particular every row, and everything that *)
(* is announced, is a Solution with a positive version.                        *)
THEOREM TypeCorrect == Spec => []TypeOK
<1>1. IInv => TypeOK
  BY DEF IInv
<1> QED
  BY <1>1, Invariance, PTL

--------------------------------------------------------------------------------
(* What is announced.                                                          *)

LEMMA InitAnnounceInv == Init => AnnounceInv
<1> SUFFICES ASSUME Init PROVE AnnounceInv
  OBVIOUS
<1>1. DOMAIN notified = {}
  BY DEF Init
<1>2. SilentUntilOk /\ FailedIsSilent /\ PendingWasWritten /\ AnnouncedWhatWasWritten
  BY <1>1 DEF Init, SilentUntilOk, FailedIsSilent, PendingWasWritten,
     AnnouncedWhatWasWritten, Silent
<1>3. OkIsHeard /\ AfterReturned /\ NotifiedInRealTimeOrder
  BY <1>1 DEF Init, OkIsHeard, AfterReturned, NotifiedInRealTimeOrder
<1> QED
  BY <1>2, <1>3 DEF AnnounceInv

LEMMA EventBy ==
  ASSUME TypeOK, NEW i \in DOMAIN notified
  PROVE  notified[i] \in Event /\ notified[i].by \in Requests
<1>1. notified[i] \in Event
  BY ElementOfSeq DEF TypeOK
<1> QED
  BY <1>1 DEF Event

(* A step of a request of which nobody has heard yet.                          *)
LEMMA QuietStep ==
  ASSUME IInv, AnnounceInv, NEW r \in Requests, pc[r] \in {"idle", "write", "collect"},
         UNCHANGED <<notified, unheard>>,
         \A s \in Requests : s # r =>
             /\ pc'[s] = pc[s] /\ op'[s] = op[s] /\ pending'[s] = pending[s]
             /\ result'[s] = result[s] /\ wrote'[s] = wrote[s] /\ after'[s] = after[s],
         pc'[r] = "announce" => result'[r] = Reply(op'[r], "ok"),
         pc'[r] = "done" => pending'[r] = {},
         (pc'[r] \in {"announce", "done"} /\ result'[r].out = "ok") =>
             \A row \in wrote'[r] : \E obj \in pending'[r] : obj.key = row.key,
         (pc'[r] = "announce" /\ op'[r] # "DeleteCollection") =>
             \A obj \in pending'[r] : Wrote(r, TypeOf(op[r]), obj)' /\ pending'[r] = {obj},
         after'[r] \in {after[r], Returned}
  PROVE  AnnounceInv'
<1>1. Silent(r) /\ \A i \in DOMAIN notified : notified[i].by \in Requests \ {r}
  BY EventBy DEF AnnounceInv, SilentUntilOk, IInv, Silent
<1>2. Returned \subseteq Returned'
  BY DEF Returned
<1>3. SilentUntilOk'
  BY <1>1 DEF AnnounceInv, SilentUntilOk, Silent
<1>4. FailedIsSilent'
  BY <1>1 DEF AnnounceInv, FailedIsSilent
<1>5. PendingWasWritten'
  BY <1>1 DEF AnnounceInv, PendingWasWritten, Silent, Wrote
<1>6. AnnouncedWhatWasWritten'
  BY <1>1 DEF AnnounceInv, AnnouncedWhatWasWritten, Wrote
<1>7. OkIsHeard'
  BY DEF AnnounceInv, OkIsHeard, Heard
<1>8. AfterReturned'
  BY <1>2 DEF AnnounceInv, AfterReturned
<1>9. NotifiedInRealTimeOrder'
  BY <1>1 DEF AnnounceInv, NotifiedInRealTimeOrder
<1> QED
  BY <1>3, <1>4, <1>5, <1>6, <1>7, <1>8, <1>9 DEF AnnounceInv

LEMMA ReturnAnnounceInv ==
  ASSUME IInv, AnnounceInv, NEW r \in Requests, Returns(r)
  PROVE  AnnounceInv'
<1> PICK operation \in Operations, out \in Outcomes :
        /\ out = "ok" => pc[r] = "idle"
        /\ Return(r, operation, out)
  BY DEF Returns
<1>1. /\ pc[r] \in {"idle", "write", "collect"}
      /\ UNCHANGED <<notified, unheard, op, pending, wrote, after>>
  BY DEF Returns, Return, callVars, historyVars
<1>2. /\ pc'[r] = "done"
      /\ \A s \in Requests : s # r => pc'[s] = pc[s]
  BY GotoType DEF Return, IInv, Places
<1>3. /\ result'[r].out = out
      /\ \A s \in Requests : s # r => result'[s] = result[s]
  BY AnswerType DEF Return, IInv
<1>4. pending[r] = {} /\ (out = "ok" => wrote[r] = {})
  BY <1>1 DEF IInv, Untouched, CollectsListed
<1> QED
  BY <1>1, <1>2, <1>3, <1>4, QuietStep

LEMMA ReadAnnounceInv ==
  ASSUME IInv, AnnounceInv, NEW r \in Requests, Reads(r) \/ Lists(r)
  PROVE  AnnounceInv'
<1>1. /\ pc[r] = "idle"
      /\ \E label \in {"write", "collect"} : Goto(r, label)
      /\ UNCHANGED <<notified, unheard, pending, result, wrote, after>>
      /\ \E operation \in Operations : op' = [op EXCEPT ![r] = operation]
  BY DEF Reads, Lists, Operations
<1>2. /\ pc'[r] \in {"write", "collect"}
      /\ \A s \in Requests : s # r => pc'[s] = pc[s]
  BY <1>1, GotoType DEF IInv, Places
<1>3. \A s \in Requests : s # r => op'[s] = op[s]
  BY <1>1 DEF IInv, TypeOK
<1> QED
  BY <1>1, <1>2, <1>3, QuietStep

LEMMA CommitAnnounceInv ==
  ASSUME IInv, AnnounceInv, NEW r \in Requests, Commits(r)
  PROVE  AnnounceInv'
<1> PICK operation \in Operations, k \in Keys, row \in Solution \cup {Nil},
         touched \in Solution, sol \in Solution :
           CommitStep(r, operation, k, row, touched, sol)
  BY DEF Commits
<1>1. /\ pc[r] \in {"idle", "write"}
      /\ touched.key = k /\ sol.key = k
      /\ operation \in {"Create", "Update", "UpdateStatus", "Delete"}
      /\ operation # "Delete" => touched.rv = sol.rv /\ touched.phase = sol.phase
      /\ operation \in {"Create", "Update"} => touched.spec = sol.spec
      /\ UNCHANGED <<notified, unheard>>
  BY DEF CommitStep, Commit
<1>2. /\ op'[r] = operation /\ wrote'[r] = {touched} /\ after'[r] = Returned
      /\ \A s \in Requests : s # r =>
            op'[s] = op[s] /\ wrote'[s] = wrote[s] /\ after'[s] = after[s]
  BY DEF CommitStep, Commit, IInv, TypeOK
<1>3. CASE /\ Answer(r, operation, "ok")
           /\ pending' = [pending EXCEPT ![r] = {sol}]
           /\ Goto(r, "announce")
  <2>1. /\ pc'[r] = "announce"
        /\ \A s \in Requests : s # r => pc'[s] = pc[s]
    BY <1>3, GotoType DEF IInv, Places
  <2>2. /\ result'[r] = Reply(op'[r], "ok")
        /\ \A s \in Requests : s # r => result'[s] = result[s]
    BY <1>2, <1>3, AnswerType DEF IInv, Outcomes
  <2>3. /\ pending'[r] = {sol}
        /\ \A s \in Requests : s # r => pending'[s] = pending[s]
    BY <1>3 DEF IInv, TypeOK
  <2>4. Wrote(r, TypeOf(op[r]), sol)'
    BY <1>1, <1>2 DEF Wrote, TypeOf
  <2> QED
    BY <1>1, <1>2, <2>1, <2>2, <2>3, <2>4, QuietStep
<1>4. CASE /\ Answer(r, operation, "Error")
           /\ Goto(r, "done")
           /\ UNCHANGED pending
  <2>1. /\ pc'[r] = "done"
        /\ \A s \in Requests : s # r => pc'[s] = pc[s]
    BY <1>4, GotoType DEF IInv, Places
  <2>2. /\ result'[r].out # "ok"
        /\ \A s \in Requests : s # r => result'[s] = result[s]
    BY <1>4, AnswerType DEF IInv, Outcomes
  <2>3. pending[r] = {}
    BY <1>1 DEF IInv, Untouched
  <2> QED
    BY <1>1, <1>2, <1>4, <2>1, <2>2, <2>3, QuietStep
<1> QED
  BY <1>3, <1>4 DEF CommitStep, Commit

LEMMA DeleteItemAnnounceInv ==
  ASSUME IInv, AnnounceInv, NEW r \in Requests, DeleteItem(r)
  PROVE  AnnounceInv'
<1>1. /\ pc[r] = "collect"
      /\ UNCHANGED <<notified, unheard, op, pending, after>>
      /\ \A s \in Requests : s # r => wrote'[s] = wrote[s]
  BY DEF DeleteItem, IInv, TypeOK
<1>2. pending[r] = {}
  BY <1>1 DEF IInv, CollectsListed
<1>3. CASE UNCHANGED <<pc, result>>
  BY <1>1, <1>2, <1>3, QuietStep
<1>4. CASE Answer(r, "DeleteCollection", "Error") /\ Goto(r, "done")
  <2>1. /\ pc'[r] = "done"
        /\ \A s \in Requests : s # r => pc'[s] = pc[s]
    BY <1>4, GotoType DEF IInv, Places
  <2>2. /\ result'[r].out # "ok"
        /\ \A s \in Requests : s # r => result'[s] = result[s]
    BY <1>4, AnswerType DEF IInv, Outcomes, Operations
  <2> QED
    BY <1>1, <1>2, <2>1, <2>2, QuietStep
<1> QED
  BY <1>3, <1>4 DEF DeleteItem

LEMMA EndCollectAnnounceInv ==
  ASSUME IInv, AnnounceInv, NEW r \in Requests, EndCollect(r)
  PROVE  AnnounceInv'
<1>1. /\ pc[r] = "collect" /\ op[r] = "DeleteCollection"
      /\ UNCHANGED <<notified, unheard, op, wrote>>
      /\ \A row \in wrote[r] : \E obj \in listed[r] : obj.key = row.key
  BY DEF EndCollect, callVars, IInv, CollectsListed
<1>2. /\ pc'[r] = "announce"
      /\ \A s \in Requests : s # r => pc'[s] = pc[s]
  BY GotoType DEF EndCollect, IInv, Places
<1>3. /\ result'[r] = Reply(op'[r], "ok")
      /\ \A s \in Requests : s # r => result'[s] = result[s]
  BY <1>1, AnswerType DEF EndCollect, IInv, Outcomes, Operations
<1>4. /\ pending'[r] = listed[r] /\ after'[r] = Returned
      /\ \A s \in Requests : s # r => pending'[s] = pending[s] /\ after'[s] = after[s]
  BY DEF EndCollect, IInv, TypeOK
<1> QED
  BY <1>1, <1>2, <1>3, <1>4, QuietStep

LEMMA EndAnnounceInv ==
  ASSUME IInv, AnnounceInv, NEW r \in Requests, Respond(r) \/ Crash(r)
  PROVE  AnnounceInv'
<1>1. PICK label \in {"done", "crashed"} :
        Goto(r, label) /\ (label = "done" => pending[r] = {} /\ pc[r] = "announce")
  BY DEF Respond, Crash
<1>2. /\ pc'[r] = label /\ pc[r] # "done"
      /\ \A s \in Requests : s # r => pc'[s] = pc[s]
  BY <1>1, GotoType DEF IInv, Places, Respond, Crash
<1>3. UNCHANGED <<notified, op, pending, result, wrote, after, unheard>>
  BY DEF Respond, Crash, callVars, historyVars
<1>4. SilentUntilOk' /\ FailedIsSilent' /\ PendingWasWritten' /\ AnnouncedWhatWasWritten'
  BY <1>1, <1>2, <1>3 DEF AnnounceInv, SilentUntilOk, FailedIsSilent, PendingWasWritten,
     AnnouncedWhatWasWritten, Silent, Wrote
<1>5. OkIsHeard'
  BY <1>1, <1>2, <1>3 DEF AnnounceInv, OkIsHeard, Heard
<1>6. AfterReturned' /\ NotifiedInRealTimeOrder'
  BY <1>2, <1>3 DEF AnnounceInv, AfterReturned, NotifiedInRealTimeOrder, Returned
<1> QED
  BY <1>4, <1>5, <1>6 DEF AnnounceInv

(* A NOTIFY goes behind those already sent.                                    *)
LEMMA Appended ==
  ASSUME TypeOK, NEW event \in Event, notified' = Append(notified, event)
  PROVE  /\ DOMAIN notified = 1 .. Len(notified) /\ Len(notified) \in Nat
         /\ DOMAIN notified' = DOMAIN notified \cup {Len(notified) + 1}
         /\ notified'[Len(notified) + 1] = event
         /\ \A i \in DOMAIN notified : notified'[i] = notified[i]
<1>1. notified \in Seq(Event)
  BY DEF TypeOK
<1>2. DOMAIN notified = 1 .. Len(notified) /\ Len(notified) \in Nat
  BY <1>1
<1>3. DOMAIN notified' = 1 .. (Len(notified) + 1)
  BY <1>1, <1>2
<1>4. notified'[Len(notified) + 1] = event
  BY <1>1, <1>2
<1>5. \A i \in 1 .. Len(notified) : notified'[i] = notified[i]
  BY <1>1, <1>2
<1> QED
  BY <1>2, <1>3, <1>4, <1>5

(* What is no longer pending has been announced or lost.                       *)
LEMMA StillHeard ==
  ASSUME OkIsHeard, NEW r \in Requests, NEW obj \in pending[r],
         UNCHANGED <<pc, result, wrote>>,
         pending'[r] = pending[r] \ {obj},
         \A s \in Requests : s # r => pending'[s] = pending[s],
         unheard \subseteq unheard',
         \A i \in DOMAIN notified : i \in DOMAIN notified' /\ notified'[i] = notified[i],
         \/ \E i \in DOMAIN notified' : notified'[i].by = r /\ notified'[i].obj = obj
         \/ <<r, obj>> \in unheard'
  PROVE  OkIsHeard'
<1> SUFFICES ASSUME NEW s \in Requests, pc[s] \in {"announce", "done"},
                    result[s].out = "ok", NEW row \in wrote[s]
             PROVE  Heard(s, row)'
  BY DEF OkIsHeard
<1>1. Heard(s, row)
  BY DEF OkIsHeard
<1>2. CASE \E i \in DOMAIN notified : notified[i].by = s /\ notified[i].obj.key = row.key
  BY <1>2 DEF Heard
<1>3. CASE \E lost \in unheard : lost[1] = s /\ lost[2].key = row.key
  BY <1>3 DEF Heard
<1>4. CASE \E o \in pending[s] : o.key = row.key
  <2>1. CASE s = r /\ obj.key = row.key
    <3>1. CASE \E i \in DOMAIN notified' : notified'[i].by = r /\ notified'[i].obj = obj
      BY <2>1, <3>1 DEF Heard
    <3>2. CASE <<r, obj>> \in unheard'
      BY <2>1, <3>2 DEF Heard
    <3> QED
      BY <3>1, <3>2
  <2>2. CASE ~(s = r /\ obj.key = row.key)
    BY <1>4, <2>2 DEF Heard
  <2> QED
    BY <2>1, <2>2
<1> QED
  BY <1>1, <1>2, <1>3, <1>4 DEF Heard

LEMMA AnnounceAnnounceInv ==
  ASSUME IInv, AnnounceInv, NEW r \in Requests, Announce(r)
  PROVE  AnnounceInv'
<1> PICK obj \in pending[r] :
        /\ pending' = [pending EXCEPT ![r] = @ \ {obj}]
        /\ \/ /\ notified' = Append(notified, [type |-> TypeOf(op[r]), by |-> r, obj |-> obj])
              /\ UNCHANGED <<failures, unheard>>
           \/ /\ Failure
              /\ unheard' = unheard \cup {<<r, obj>>}
              /\ UNCHANGED notified
  BY DEF Announce
<1>1. /\ pc[r] = "announce" /\ result[r] = Reply(op[r], "ok")
      /\ UNCHANGED <<pc, op, result, wrote, after>>
  BY DEF Announce, callVars, AnnounceInv, SilentUntilOk
<1>2. /\ pending'[r] = pending[r] \ {obj}
      /\ \A s \in Requests : s # r => pending'[s] = pending[s]
  BY DEF IInv, TypeOK
<1>3. op[r] # "DeleteCollection" =>
          Wrote(r, TypeOf(op[r]), obj) /\ pending'[r] = {} /\ Silent(r)
  BY <1>1, <1>2 DEF AnnounceInv, PendingWasWritten
<1>4. AfterReturned'
  BY <1>1 DEF AnnounceInv, AfterReturned, Returned
<1>5. CASE unheard' = unheard \cup {<<r, obj>>} /\ UNCHANGED notified
  <2>1. SilentUntilOk' /\ FailedIsSilent' /\ PendingWasWritten'
    BY <1>1, <1>2, <1>3, <1>5 DEF AnnounceInv, SilentUntilOk, FailedIsSilent,
       PendingWasWritten, Silent, Wrote
  <2>2. AnnouncedWhatWasWritten' /\ NotifiedInRealTimeOrder'
    BY <1>1, <1>5 DEF AnnounceInv, AnnouncedWhatWasWritten, NotifiedInRealTimeOrder, Wrote
  <2>3. OkIsHeard'
    <3>1. <<r, obj>> \in unheard' /\ unheard \subseteq unheard'
      BY <1>5
    <3> QED
      BY <1>1, <1>2, <1>5, <3>1, StillHeard DEF AnnounceInv
  <2> QED
    BY <1>4, <2>1, <2>2, <2>3 DEF AnnounceInv
<1>6. CASE /\ notified' = Append(notified, [type |-> TypeOf(op[r]), by |-> r, obj |-> obj])
           /\ UNCHANGED unheard
  <2> DEFINE event == [type |-> TypeOf(op[r]), by |-> r, obj |-> obj]
             new   == Len(notified) + 1
  <2>1. event \in Event /\ event.by = r /\ event.obj = obj /\ event.type = TypeOf(op[r])
    BY AnnounceType
  <2> HIDE DEF event
  <2>2. notified' = Append(notified, event)
    BY <1>6 DEF event
  <2>3. /\ DOMAIN notified = 1 .. Len(notified) /\ Len(notified) \in Nat
        /\ DOMAIN notified' = DOMAIN notified \cup {new}
        /\ notified'[new] = event
        /\ \A i \in DOMAIN notified : notified'[i] = notified[i]
    BY <2>1, <2>2, Appended DEF IInv
  <2>4. \A i \in DOMAIN notified : i # new /\ i < new
    BY <2>3
  <2>5. \A i \in DOMAIN notified : notified[i].by \in Requests
    BY EventBy DEF IInv
  <2> HIDE DEF new
  <2>6. SilentUntilOk'
    BY <1>1, <1>2, <2>1, <2>3 DEF AnnounceInv, SilentUntilOk, Silent
  <2>7. FailedIsSilent'
    BY <1>1, <2>1, <2>3 DEF AnnounceInv, FailedIsSilent
  <2>8. PendingWasWritten'
    BY <1>1, <1>2, <1>3, <2>1, <2>3 DEF AnnounceInv, PendingWasWritten, Silent, Wrote
  <2>9. AnnouncedWhatWasWritten'
    <3> SUFFICES ASSUME NEW i \in DOMAIN notified', op[notified'[i].by] # "DeleteCollection"
                 PROVE  /\ Wrote(notified'[i].by, notified'[i].type, notified'[i].obj)
                        /\ \A j \in DOMAIN notified' :
                              notified'[j].by = notified'[i].by => j = i
      BY <1>1 DEF AnnouncedWhatWasWritten, Wrote
    <3>1. CASE i = new
      BY <1>3, <2>1, <2>3, <3>1 DEF Silent
    <3>2. CASE i \in DOMAIN notified
      <4>1. notified'[i] = notified[i] /\ notified[i].by # r
        BY <1>3, <2>3, <3>2 DEF Silent
      <4> QED
        BY <2>1, <2>3, <3>2, <4>1 DEF AnnounceInv, AnnouncedWhatWasWritten
    <3> QED
      BY <2>3, <3>1, <3>2
  <2>10. OkIsHeard'
    <3>1. \E i \in DOMAIN notified' : notified'[i].by = r /\ notified'[i].obj = obj
      BY <2>1, <2>3
    <3>2. \A i \in DOMAIN notified : i \in DOMAIN notified' /\ notified'[i] = notified[i]
      BY <2>3
    <3> QED
      BY <1>1, <1>2, <1>6, <3>1, <3>2, StillHeard DEF AnnounceInv
  <2>11. NotifiedInRealTimeOrder'
    <3> SUFFICES ASSUME NEW i \in DOMAIN notified', NEW j \in DOMAIN notified', i < j
                 PROVE  notified'[j].by \notin after[notified'[i].by]
      BY <1>1 DEF NotifiedInRealTimeOrder
    <3>1. i \in DOMAIN notified /\ notified'[i] = notified[i]
      BY <2>3 DEF new
    <3>2. CASE j = new
      <4>1. notified'[j].by = r /\ r \notin Returned
        BY <1>1, <2>1, <2>3, <3>2 DEF Returned
      <4>2. after[notified[i].by] \subseteq Returned
        BY <2>5, <3>1 DEF AnnounceInv, AfterReturned
      <4> QED
        BY <3>1, <4>1, <4>2
    <3>3. CASE j \in DOMAIN notified
      BY <2>3, <3>1, <3>3 DEF AnnounceInv, NotifiedInRealTimeOrder
    <3> QED
      BY <2>3, <3>2, <3>3
  <2> QED
    BY <1>4, <2>6, <2>7, <2>8, <2>9, <2>10, <2>11 DEF AnnounceInv
<1> QED
  BY <1>5, <1>6

LEMMA NextAnnounceInv == IInv /\ AnnounceInv /\ [Next]_vars => AnnounceInv'
<1> SUFFICES ASSUME IInv, AnnounceInv, [Next]_vars PROVE AnnounceInv'
  OBVIOUS
<1>1. CASE UNCHANGED vars
  BY <1>1 DEF vars, callVars, historyVars, AnnounceInv, SilentUntilOk, FailedIsSilent,
     PendingWasWritten, AnnouncedWhatWasWritten, OkIsHeard, AfterReturned,
     NotifiedInRealTimeOrder, Silent, Wrote, Heard, Returned
<1>2. ASSUME NEW r \in Requests, Kinds(r) PROVE AnnounceInv'
  BY <1>2, ReturnAnnounceInv, ReadAnnounceInv, CommitAnnounceInv, DeleteItemAnnounceInv,
     EndCollectAnnounceInv, AnnounceAnnounceInv, EndAnnounceInv DEF Kinds
<1> QED
  BY <1>1, <1>2, NextKinds

LEMMA AnnounceInvariance == Spec => []AnnounceInv
  BY InitAnnounceInv, NextAnnounceInv, Invariance, PTL DEF Spec

(* Who hears of a single write hears what that write wrote, once: whatever     *)
(* interleaving of reads and writes of one row, no announcement is made up or  *)
(* made twice (but for those of a DeleteCollection, which looks at no count).  *)
THEOREM WritesAnnounced == Spec => []AnnouncedWhatWasWritten
<1>1. AnnounceInv => AnnouncedWhatWasWritten
  BY DEF AnnounceInv
<1> QED
  BY <1>1, AnnounceInvariance, PTL

(* No row that a successful request wrote or removed goes unannounced, unless  *)
(* its NOTIFY failed.                                                          *)
THEOREM SuccessAnnounced == Spec => []OkIsAnnounced
<1>1. AnnounceInv => OkIsAnnounced
  BY DEF AnnounceInv, OkIsAnnounced, OkIsHeard, Heard, SilentUntilOk
<1> QED
  BY <1>1, AnnounceInvariance, PTL

(* A request that fails, or that crashes before it has an answer, tells nobody.*)
THEOREM FailureSilent == Spec => []FailedIsSilent
<1>1. AnnounceInv => FailedIsSilent
  BY DEF AnnounceInv
<1> QED
  BY <1>1, AnnounceInvariance, PTL

(* The order of the announcements respects that of requests which do not       *)
(* overlap.                                                                    *)
THEOREM RealTimeOrderKept == Spec => []NotifiedInRealTimeOrder
<1>1. AnnounceInv => NotifiedInRealTimeOrder
  BY DEF AnnounceInv
<1> QED
  BY <1>1, AnnounceInvariance, PTL

--------------------------------------------------------------------------------
(* Implementing the table: what each request does to rows, versions and        *)
(* answers.                                                                    *)

LEMMA TableDefinitions ==
  /\ Table!Keys = Keys
  /\ Table!Operations = Operations
  /\ \A operation, out : Table!Reply(operation, out) = Reply(operation, out)
  /\ \A k : Table!NamespaceOf(k) = NamespaceOf(k)
  BY DEF Table!Keys, Keys, Table!Operations, Operations, Table!Reply, Reply,
     Table!NamespaceOf, NamespaceOf

LEMMA VersionsOf ==
  ASSUME NEW k \in Keys, NEW o \in Written, o.key = k
  PROVE  o.rv \in Versions[k]
  BY DEF Versions, Written

LEMMA VersionsUnchanged == ASSUME UNCHANGED wrote PROVE UNCHANGED Versions
  BY DEF Versions

LEMMA VersionsGrow ==
  ASSUME NEW k \in Keys, NEW row, row.key = k, Written' = Written \cup {row}
  PROVE  Versions' = [Versions EXCEPT ![k] = Versions[k] \cup {row.rv}]
<1>1. /\ Versions = [j \in Keys |-> {o.rv : o \in {o \in Written : o.key = j}}]
      /\ Versions' = [j \in Keys |-> {o.rv : o \in {o \in Written' : o.key = j}}]
  BY DEF Versions, Written
<1>2. ASSUME NEW j \in Keys
      PROVE  Versions'[j] = IF j = k THEN Versions[j] \cup {row.rv} ELSE Versions[j]
  BY <1>1
<1>3. Versions' = [j \in Keys |-> Versions'[j]]
  BY <1>1
<1>4. DOMAIN Versions = Keys
  BY <1>1
<1> HIDE DEF Versions
<1> QED
  BY <1>2, <1>3, <1>4

(* An answer is the first, and that of a DeleteCollection if one is under way. *)
LEMMA AnswerStep ==
  ASSUME IInv, NEW r \in Requests, NEW operation \in Operations, NEW out \in Outcomes,
         pc[r] \in {"idle", "write", "collect"},
         pc[r] = "collect" => operation = "DeleteCollection",
         Answer(r, operation, out), UNCHANGED scope
  PROVE  Table!Answer(r, operation, out)
<1>1. /\ result[r] = Nil
      /\ scope[r] # Nil => pc[r] = "collect"
  BY DEF IInv, Untouched, CollectsListed
<1>2. result' = [result EXCEPT ![r] = Table!Reply(operation, out)]
  BY TableDefinitions DEF Answer
<1>3. Collecting[r] # Nil => operation = "DeleteCollection"
  BY <1>1 DEF Collecting
<1>4. Collecting' = [Collecting EXCEPT ![r] = Nil]
  <2>1. /\ result'[r] # Nil
        /\ \A s \in Requests : s # r => result'[s] = result[s]
    BY AnswerType, ReplyType DEF IInv
  <2> QED
    BY <2>1 DEF Collecting
<1> QED
  BY <1>1, <1>2, <1>3, <1>4 DEF Table!Answer

LEMMA ReturnStep ==
  ASSUME IInv, NEW r \in Requests, NEW operation \in Operations, NEW out \in Outcomes,
         pc[r] \in {"idle", "write", "collect"},
         pc[r] = "collect" => operation = "DeleteCollection",
         Return(r, operation, out)
  PROVE  Table!Answer(r, operation, out) /\ UNCHANGED <<rows, Versions>>
<1>1. Answer(r, operation, out) /\ UNCHANGED <<rows, scope, wrote>>
  BY DEF Return, callVars, historyVars
<1> QED
  BY <1>1, AnswerStep, VersionsUnchanged

LEMMA NotCollecting ==
  ASSUME IInv, NEW r \in Requests, pc[r] \in {"idle", "write"}
  PROVE  Collecting[r] = Nil /\ result[r] = Nil
  BY DEF IInv, Untouched, Collecting

LEMMA FailedReturn ==
  ASSUME IInv, NEW r \in Requests, NEW operation \in Operations,
         NEW out \in {"NotFound", "Error"},
         pc[r] \in {"idle", "write", "collect"},
         pc[r] = "collect" => operation = "DeleteCollection",
         Return(r, operation, out), Failure
  PROVE  Table!Fail(r)
<1>1. out \in Outcomes
  BY DEF Outcomes
<1> QED
  BY <1>1, ReturnStep, TableDefinitions DEF Table!Fail, Failure

LEMMA CommitTable ==
  ASSUME IInv, NEW r \in Requests, NEW operation, NEW k, NEW row, NEW touched, NEW sol,
         CommitStep(r, operation, k, row, touched, sol),
         row = Nil => touched \in Written
  PROVE  Table!Write(r, operation, k, row)
<1> USE DEF CommitStep
<1>1. /\ wrote[r] \subseteq {touched} /\ {touched} \in SUBSET Solution
      /\ wrote' = [wrote EXCEPT ![r] = {touched}]
  BY DEF Commit, IInv, Untouched
<1>2. Written' = Written \cup {touched}
  BY <1>1, WrittenGrows DEF IInv
<1>3. Versions' = [Versions EXCEPT ![k] = @ \cup {v.rv : v \in {row} \ {Nil}}]
  <2>1. CASE row # Nil
    <3>1. {v.rv : v \in {row} \ {Nil}} = {touched.rv}
      BY <2>1
    <3>2. Versions' = [Versions EXCEPT ![k] = Versions[k] \cup {touched.rv}]
      BY <1>2, VersionsGrow
    <3> QED
      BY <3>1, <3>2
  <2>2. CASE row = Nil
    <3>1. Written' = Written
      BY <1>2, <2>2
    <3>2. Versions' = Versions
      BY <3>1 DEF Versions, Written
    <3>3. {v.rv : v \in {row} \ {Nil}} = {}
      BY <2>2
    <3> QED
      BY <3>2, <3>3 DEF Versions
  <2> QED
    BY <2>1, <2>2
<1>4. rows' = [rows EXCEPT ![k] = row]
  BY DEF Commit
<1>5. operation \in Operations /\ {"ok", "Error"} \subseteq Outcomes
  BY DEF Operations, Outcomes
<1>6. CASE Answer(r, operation, "ok") /\ UNCHANGED failures
  <2>1. Table!Answer(r, operation, "ok")
    BY <1>5, <1>6, AnswerStep
  <2> QED
    BY <1>3, <1>4, <1>6, <2>1 DEF Table!Write
<1>7. CASE Answer(r, operation, "Error") /\ Failure
  <2>1. Table!Answer(r, operation, "Error")
    BY <1>5, <1>7, AnswerStep
  <2> QED
    BY <1>3, <1>4, <1>7, <2>1 DEF Table!Write, Failure
<1> QED
  BY <1>6, <1>7 DEF Commit

LEMMA GetStep ==
  ASSUME IInv, NEW r \in Requests, NEW k \in Keys, Get(r, k)
  PROVE  Table!Get(r, k) \/ Table!Miss(r, k) \/ Table!Fail(r)
<1> USE DEF Get, Operations, Outcomes
<1>1. CASE rows[k] = Nil /\ Return(r, "Get", "NotFound") /\ UNCHANGED failures
  BY <1>1, ReturnStep DEF Table!Miss
<1>2. CASE rows[k] # Nil /\ Return(r, "Get", "ok") /\ UNCHANGED failures
  BY <1>2, ReturnStep DEF Table!Get
<1>3. CASE Return(r, "Get", "NotFound") /\ Failure
  BY <1>3, FailedReturn
<1> QED
  BY <1>1, <1>2, <1>3

LEMMA CreateInvalidStep ==
  ASSUME IInv, NEW r \in Requests, CreateInvalid(r)
  PROVE  Table!Refuse(r)
  BY ReturnStep DEF CreateInvalid, Table!Refuse, Operations, Outcomes

LEMMA CreateStep ==
  ASSUME IInv, NEW r \in Requests, NEW k \in Keys, NEW spec \in SolutionNames,
         NEW phase \in Phases, Create(r, k, spec, phase)
  PROVE  Table!Create(r, k) \/ Table!Conflict(r, k) \/ Table!Fail(r)
<1> USE DEF Operations, Outcomes
<1>1. CASE Return(r, "Create", "Error") /\ Failure
  BY <1>1, FailedReturn DEF Create
<1>2. CASE rows[k] # Nil /\ Return(r, "Create", "AlreadyExists") /\ UNCHANGED failures
  BY <1>2, ReturnStep DEF Create, Table!Conflict
<1>3. CASE /\ rows[k] = Nil
           /\ op' = [op EXCEPT ![r] = "Create"]
           /\ UNCHANGED <<scope, existing, items>>
           /\ LET sol == Created(r, k, spec, phase) IN Commit(r, "Create", k, sol, sol, sol)
  <2> DEFINE sol == Created(r, k, spec, phase)
  <2>1. sol \in Solution /\ sol.key = k /\ sol # Nil
    BY CreatedType, NilIsNoSolution
  <2>2. Table!Created(r, k, spec, phase) = sol
    BY DEF Table!Created, Created
  <2> HIDE DEF sol
  <2>3. CommitStep(r, "Create", k, sol, sol, sol)
    BY <1>3, <2>1 DEF Create, CommitStep, sol
  <2>4. Table!Write(r, "Create", k, sol)
    BY <2>1, <2>3, CommitTable
  <2> QED
    BY <1>3, <2>2, <2>4 DEF Table!Create
<1> QED
  BY <1>1, <1>2, <1>3 DEF Create

LEMMA ReadStep ==
  ASSUME IInv, NEW r \in Requests, NEW k \in Keys,
         NEW operation \in {"Update", "UpdateStatus", "Delete"}, Read(r, k, operation)
  PROVE  UNCHANGED Table!vars \/ Table!Miss(r, k) \/ Table!Fail(r)
<1> USE DEF Read, Operations, Outcomes
<1>1. CASE UNCHANGED <<rows, scope, result, failures, historyVars>>
  BY <1>1, VersionsUnchanged DEF Table!vars, historyVars, Collecting
<1>2. CASE rows[k] = Nil /\ Return(r, operation, "NotFound") /\ UNCHANGED failures
  BY <1>2, ReturnStep DEF Table!Miss
<1>3. CASE Return(r, operation, "NotFound") /\ Failure
  BY <1>3, FailedReturn
<1> QED
  BY <1>1, <1>2, <1>3

LEMMA ListRefusedStep ==
  ASSUME IInv, NEW r \in Requests, NEW operation \in {"List", "DeleteCollection"}, NEW sel,
         pc[r] = "idle", ListRefused(r, operation, sel)
  PROVE  Table!List(r)
<1>1. PICK out \in {"Invalid", "Error"} : Return(r, operation, out) /\ UNCHANGED failures
  BY DEF ListRefused
<1>2. Table!Answer(r, operation, out) /\ UNCHANGED <<rows, Versions>>
  BY <1>1, ReturnStep DEF Operations, Outcomes
<1> QED
  BY <1>1, <1>2, NotCollecting DEF Table!List

LEMMA ListStep ==
  ASSUME IInv, NEW r \in Requests, NEW sel, List(r, sel)
  PROVE  Table!List(r) \/ Table!Fail(r)
<1> USE DEF Operations, Outcomes
<1>1. CASE ListRefused(r, "List", sel)
  BY <1>1, ListRefusedStep DEF List
<1>2. CASE Return(r, "List", "ok") /\ UNCHANGED failures
  BY <1>2, ReturnStep, NotCollecting DEF List, Table!List
<1>3. CASE Return(r, "List", "Error") /\ Failure
  BY <1>3, FailedReturn DEF List
<1> QED
  BY <1>1, <1>2, <1>3 DEF List

LEMMA DeleteCollectionStep ==
  ASSUME IInv, NEW r \in Requests, NEW ns \in Namespaces, NEW sel,
         DeleteCollection(r, ns, sel)
  PROVE  Table!Collect(r, ns) \/ Table!List(r) \/ Table!Fail(r)
<1>1. CASE ListRefused(r, "DeleteCollection", sel)
  BY <1>1, ListRefusedStep DEF DeleteCollection
<1>2. CASE scope' = [scope EXCEPT ![r] = ns] /\ UNCHANGED <<rows, result, failures, wrote>>
  <2>1. Collecting[r] = Nil /\ result[r] = Nil
    BY NotCollecting DEF DeleteCollection
  <2>2. Collecting' = [Collecting EXCEPT ![r] = ns]
    BY <1>2, <2>1 DEF Collecting, IInv, TypeOK
  <2> QED
    BY <1>2, <2>1, <2>2, VersionsUnchanged DEF Table!Collect
<1>3. CASE Return(r, "DeleteCollection", "Error") /\ Failure
  BY <1>3, FailedReturn DEF DeleteCollection, Operations
<1> QED
  BY <1>1, <1>2, <1>3 DEF DeleteCollection

LEMMA RefuseStep ==
  ASSUME IInv, NEW r \in Requests, Refuse(r)
  PROVE  Table!Refuse(r)
<1>1. op[r] \in {"Update", "UpdateStatus", "Delete"} /\ pc[r] = "write"
  BY DEF Refuse, IInv, ReadWasWritten
<1> QED
  BY <1>1, ReturnStep DEF Refuse, Table!Refuse, Operations, Outcomes

LEMMA GoneStep ==
  ASSUME IInv, NEW r \in Requests, Gone(r)
  PROVE  \E k \in Keys : Table!Miss(r, k)
<1>1. op[r] \in {"Update", "UpdateStatus", "Delete"} /\ pc[r] = "write"
  BY DEF Gone, IInv, ReadWasWritten
<1>2. existing[r].key \in Keys
  BY <1>1, ReadType
<1> QED
  BY <1>1, <1>2, ReturnStep DEF Gone, Table!Miss, Operations, Outcomes

LEMMA StatementFailsStep ==
  ASSUME IInv, NEW r \in Requests, StatementFails(r)
  PROVE  Table!Fail(r)
<1>1. op[r] \in Operations /\ (pc[r] = "collect" => op[r] = "DeleteCollection")
  BY DEF StatementFails, IInv, ReadWasWritten, CollectsListed, Operations
<1> QED
  BY <1>1, FailedReturn DEF StatementFails

LEMMA TableUpdates ==
  ASSUME NEW r \in Requests, NEW k \in Keys
  PROVE  /\ Table!Update(r, k) <=>
              /\ rows[k] # Nil
              /\ \E spec \in SolutionNames, phase \in Phases, rv \in Versions[k] :
                    Table!Write(r, "Update", k, Overwritten(rows[k], rv + 1, spec, phase))
         /\ Table!UpdateStatus(r, k) <=>
              /\ rows[k] # Nil
              /\ \E phase \in Phases, rv \in Versions[k] :
                    Table!Write(r, "UpdateStatus", k, StatusOverwritten(rows[k], rv + 1, phase))
  BY DEF Table!Update, Table!UpdateStatus, Overwritten, StatusOverwritten

(* The version read may be stale, but it is one the row once had.              *)
LEMMA UpdateStep ==
  ASSUME IInv, NEW r \in Requests, NEW spec \in SolutionNames, NEW phase \in Phases,
         Update(r, spec, phase)
  PROVE  \E k \in Keys : Table!Update(r, k)
<1> DEFINE k   == existing[r].key
           rv  == existing[r].rv
           row == Overwritten(rows[k], rv + 1, spec, phase)
<1>1. pc[r] = "write" /\ rows[k] # Nil
  BY DEF Update
<1> HIDE DEF row
<1>2. \E sol : CommitStep(r, "Update", k, row, row, sol)
  BY UpdateCommitStep DEF row
<1>3. k \in Keys /\ rv \in Versions[k]
  BY <1>1, ReadType, VersionsOf
<1>4. row # Nil
  BY <1>2, NilIsNoSolution DEF CommitStep
<1>5. Table!Write(r, "Update", k, row)
  BY <1>2, <1>4, CommitTable
<1> QED
  BY <1>1, <1>3, <1>5, TableUpdates DEF row

LEMMA UpdateStatusStep ==
  ASSUME IInv, NEW r \in Requests, NEW phase \in Phases, UpdateStatus(r, phase)
  PROVE  \E k \in Keys : Table!UpdateStatus(r, k)
<1> DEFINE k   == existing[r].key
           rv  == existing[r].rv
           row == StatusOverwritten(rows[k], rv + 1, phase)
<1>1. pc[r] = "write" /\ rows[k] # Nil
  BY DEF UpdateStatus
<1> HIDE DEF row
<1>2. \E sol : CommitStep(r, "UpdateStatus", k, row, row, sol)
  BY UpdateStatusCommitStep DEF row
<1>3. k \in Keys /\ rv \in Versions[k]
  BY <1>1, ReadType, VersionsOf
<1>4. row # Nil
  BY <1>2, NilIsNoSolution DEF CommitStep
<1>5. Table!Write(r, "UpdateStatus", k, row)
  BY <1>2, <1>4, CommitTable
<1> QED
  BY <1>1, <1>3, <1>5, TableUpdates DEF row

LEMMA DeleteStep ==
  ASSUME IInv, NEW r \in Requests, Delete(r)
  PROVE  \E k \in Keys : Table!Delete(r, k)
<1> DEFINE k == existing[r].key
<1>1. /\ pc[r] = "write" /\ rows[k] # Nil
      /\ CommitStep(r, "Delete", k, Nil, rows[k], existing[r])
  BY DeleteCommitStep DEF Delete
<1>2. k \in Keys /\ rows[k] \in Written
  BY <1>1, ReadType, RowType
<1>3. Table!Write(r, "Delete", k, Nil)
  BY <1>1, <1>2, CommitTable
<1> QED
  BY <1>1, <1>2, <1>3 DEF Table!Delete

LEMMA DeleteItemStep ==
  ASSUME IInv, NEW r \in Requests, DeleteItem(r)
  PROVE  \E k \in Keys : Table!Remove(r, k)
<1>1. PICK obj \in items[r] :
        /\ rows' = [rows EXCEPT ![obj.key] = Nil]
        /\ wrote' = [wrote EXCEPT ![r] = @ \cup ({rows[obj.key]} \ {Nil})]
  BY DEF DeleteItem
<1> DEFINE k    == obj.key
           gone == {rows[k]} \ {Nil}
<1>2. /\ pc[r] = "collect" /\ k \in Keys /\ NamespaceOf(k) = scope[r] /\ result[r] = Nil
  BY DEF DeleteItem, IInv, CollectsListed, TypeOK, Solution
<1>3. Collecting[r] = Table!NamespaceOf(k)
  BY <1>2, TableDefinitions DEF Collecting
<1>4. gone \subseteq Written /\ gone \in SUBSET Solution
  BY <1>2, RowType
<1> HIDE DEF gone
<1>5. UNCHANGED Versions
  <2>1. wrote[r] \cup gone \in SUBSET Solution /\ wrote[r] \subseteq Written
    BY <1>4 DEF IInv, TypeOK, Written
  <2>2. wrote' = [wrote EXCEPT ![r] = wrote[r] \cup gone]
    BY <1>1 DEF gone
  <2>3. Written' = Written \cup (wrote[r] \cup gone)
    BY <2>1, <2>2, WrittenGrows DEF IInv
  <2>4. Written' = Written
    BY <1>4, <2>1, <2>3
  <2> QED
    BY <2>4 DEF Versions, Written
<1>6. CASE UNCHANGED <<pc, result, failures>>
  <2>1. UNCHANGED Collecting
    BY <1>6 DEF DeleteItem, Collecting
  <2> QED
    BY <1>1, <1>2, <1>3, <1>5, <1>6, <2>1 DEF Table!Remove
<1>7. CASE Failure /\ Answer(r, "DeleteCollection", "Error")
  <2>1. Table!Answer(r, "DeleteCollection", "Error")
    BY <1>2, <1>7, AnswerStep DEF DeleteItem, Operations, Outcomes
  <2> QED
    BY <1>1, <1>2, <1>3, <1>5, <1>7, <2>1 DEF Table!Remove, Failure
<1> QED
  BY <1>6, <1>7 DEF DeleteItem

LEMMA CollectedStep ==
  ASSUME IInv, NEW r \in Requests, RefuseItem(r) \/ EndCollect(r)
  PROVE  Table!Collected(r)
<1>1. PICK out \in {"ok", "Invalid"} : Answer(r, "DeleteCollection", out)
  BY DEF RefuseItem, EndCollect, Return
<1>2. pc[r] = "collect" /\ UNCHANGED <<rows, wrote, scope, failures>>
  BY DEF RefuseItem, EndCollect, Return, callVars, historyVars
<1>3. Collecting[r] # Nil
  BY <1>2, NilAssumption DEF NilAssumption, IInv, CollectsListed, Collecting
<1>4. Table!Answer(r, "DeleteCollection", out)
  BY <1>1, <1>2, AnswerStep DEF Operations, Outcomes
<1> QED
  BY <1>2, <1>3, <1>4, VersionsUnchanged DEF Table!Collected

LEMMA AnnounceStep ==
  ASSUME IInv, NEW r \in Requests, Announce(r) \/ Respond(r) \/ Crash(r)
  PROVE  UNCHANGED Table!vars \/ Table!Crash
<1>1. UNCHANGED <<rows, scope, wrote, result>>
  BY DEF Announce, Respond, Crash, callVars, historyVars
<1>2. UNCHANGED <<Versions, Collecting>>
  BY <1>1, VersionsUnchanged DEF Collecting
<1>3. Failure \/ UNCHANGED failures
  BY DEF Announce, Respond, Crash
<1> QED
  BY <1>1, <1>2, <1>3 DEF Failure, Table!vars, Table!Crash

(* Reading, writing and announcing one statement at a time, with any of them   *)
(* failing and any server crashing, implements the abstract table.             *)
THEOREM TableImplemented == Spec => ImplementsTable
<1>1. Init => Table!Init
  <2> SUFFICES ASSUME Init PROVE Table!Init
    OBVIOUS
  <2>1. Versions = [k \in Table!Keys |-> {}]
    BY TableDefinitions DEF Init, Versions
  <2>2. Collecting = [r \in Requests |-> Nil]
    BY DEF Init, Collecting
  <2> QED
    BY <2>1, <2>2, TableDefinitions DEF Init, Table!Init
<1>2. ASSUME IInv, [Next]_vars PROVE [Table!Next]_Table!vars
  <2> USE TableDefinitions
  <2>1. ASSUME NEW r \in Requests, Start(r) PROVE [Table!Next]_Table!vars
    <3>1. CASE CreateInvalid(r)
      BY <1>2, <2>1, <3>1, CreateInvalidStep DEF Table!Next
    <3>2. ASSUME NEW k \in Keys, Get(r, k) PROVE Table!Next
      BY <1>2, <3>2, GetStep DEF Table!Next
    <3>3. ASSUME NEW k \in Keys, NEW spec \in SolutionNames, NEW phase \in Phases,
                 Create(r, k, spec, phase)
          PROVE  Table!Next
      BY <1>2, <3>3, CreateStep DEF Table!Next
    <3>4. ASSUME NEW k \in Keys, NEW operation \in {"Update", "UpdateStatus", "Delete"},
                 Read(r, k, operation)
          PROVE  [Table!Next]_Table!vars
      BY <1>2, <3>4, ReadStep DEF Table!Next
    <3>5. ASSUME NEW sel, List(r, sel) PROVE Table!Next
      BY <1>2, <3>5, ListStep DEF Table!Next
    <3>6. ASSUME NEW sel, NEW ns \in Namespaces, DeleteCollection(r, ns, sel)
          PROVE  Table!Next
      BY <1>2, <3>6, DeleteCollectionStep DEF Table!Next
    <3> QED
      BY <2>1, <3>1, <3>2, <3>3, <3>4, <3>5, <3>6 DEF Start
  <2>2. ASSUME NEW r \in Requests, Continue(r) PROVE [Table!Next]_Table!vars
    <3>1. CASE Refuse(r) \/ Gone(r) \/ StatementFails(r) \/ RefuseItem(r) \/ EndCollect(r)
      BY <1>2, <3>1, RefuseStep, GoneStep, StatementFailsStep, CollectedStep DEF Table!Next
    <3>2. ASSUME NEW spec \in SolutionNames, NEW phase \in Phases, Update(r, spec, phase)
          PROVE  Table!Next
      BY <1>2, <3>2, UpdateStep DEF Table!Next
    <3>3. ASSUME NEW phase \in Phases, UpdateStatus(r, phase) PROVE Table!Next
      BY <1>2, <3>3, UpdateStatusStep DEF Table!Next
    <3>4. CASE Delete(r) \/ DeleteItem(r)
      BY <1>2, <3>4, DeleteStep, DeleteItemStep DEF Table!Next
    <3>5. CASE Announce(r) \/ Respond(r) \/ Crash(r)
      BY <1>2, <3>5, AnnounceStep DEF Table!Next
    <3> QED
      BY <2>2, <3>1, <3>2, <3>3, <3>4, <3>5 DEF Continue
  <2>3. CASE UNCHANGED vars
    BY <2>3, VersionsUnchanged DEF vars, callVars, historyVars, Table!vars, Collecting
  <2> QED
    BY <1>2, <2>1, <2>2, <2>3 DEF Next, AllServed
<1> QED
  BY <1>1, <1>2, Invariance, PTL DEF Spec, Table!Spec, ImplementsTable
================================================================================
