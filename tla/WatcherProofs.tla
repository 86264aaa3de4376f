----------------------------- MODULE WatcherProofs -----------------------------
(* Proofs about Watcher for any number of callers of Stop, any channel size and*)
(* any filter.                                                                 *)
EXTENDS Watcher, TLAPS

InCriticalSection == {"swap", "cancel", "close", "unlock"}
Sending           == {"check", "push", "unlock"}

(* w.mu is held by the thread that is inside Stop or send, if there is one.    *)
MutualExclusion ==
    /\ \A t \in Stoppers : pc[t] \in InCriticalSection => mu = t
    /\ spc \in Sending => mu = Sender

(* The flag goes up before the channel is closed, and only the caller that put *)
(* it up gets to close it; a send gets past the check only while it is down.   *)
FlagGuardsChannel ==
    /\ closed => stopped
    /\ \A t \in Stoppers : pc[t] \in {"cancel", "close"} => stopped /\ ~closed
    /\ \A t \in Stoppers : pc[t] \in {"unlock", "done"} => stopped
    /\ spc = "push" => ~stopped

(* What the answer of send depends on.                                         *)
AnswerFollowsFlag ==
    /\ late => stopped
    /\ late /\ spc = "unlock" => ~registered

(* Only an event that matches goes on to take the lock.                        *)
MatchingSent == spc \in {"check", "push"} => offered + 1 \in Matching

IInv ==
    /\ TypeOK
    /\ NoPanic
    /\ KeptUntilStopped
    /\ MutualExclusion
    /\ FlagGuardsChannel
    /\ AnswerFollowsFlag
    /\ MatchingSent

--------------------------------------------------------------------------------
LEMMA InitIInv == Init => IInv
<1> SUFFICES ASSUME Init PROVE IInv
  OBVIOUS
<1> USE ThreadsAssumption, SizeAssumption
    DEF ThreadsAssumption, SizeAssumption, Init, Stoppers
<1>1. TypeOK
  <2>1. queue \in Seq(Nat) /\ Len(queue) <= ChanSize
    OBVIOUS
  <2>2. delivered \in Seq(Nat)
    OBVIOUS
  <2>3. pc \in [Stoppers -> {"waiting", "idle", "lock", "swap", "cancel",
                            "close", "unlock", "done"}]
    OBVIOUS
  <2> QED
    BY <2>1, <2>2, <2>3 DEF TypeOK
<1>2. NoPanic /\ KeptUntilStopped
  BY DEF NoPanic, KeptUntilStopped
<1>3. MutualExclusion /\ FlagGuardsChannel
  BY DEF MutualExclusion, FlagGuardsChannel, InCriticalSection, Sending
<1>4. AnswerFollowsFlag /\ MatchingSent
  BY DEF AnswerFollowsFlag, MatchingSent
<1> QED
  BY <1>1, <1>2, <1>3, <1>4 DEF IInv

LEMMA NextIInv == IInv /\ [Next]_vars => IInv'
<1> SUFFICES ASSUME IInv, [Next]_vars PROVE IInv'
  OBVIOUS
<1> USE ThreadsAssumption, SizeAssumption
    DEF ThreadsAssumption, SizeAssumption, IInv, TypeOK, NoPanic, KeptUntilStopped, MutualExclusion,
        FlagGuardsChannel, AnswerFollowsFlag, MatchingSent, InCriticalSection,
        Sending, Goto, stopVars, sendVars, handlerVars
<1>1. ASSUME NEW t \in Stoppers, Call(t) PROVE IInv'
  BY <1>1 DEF Call
<1>2. ASSUME NEW t \in Stoppers, Lock(t) PROVE IInv'
  BY <1>2 DEF Lock, Stoppers
<1>3. ASSUME NEW t \in Stoppers, Swap(t) PROVE IInv'
  BY <1>3 DEF Swap
<1>4. ASSUME NEW t \in Stoppers, Cancel(t) PROVE IInv'
  BY <1>4 DEF Cancel
<1>5. ASSUME NEW t \in Stoppers, Close(t) PROVE IInv'
  BY <1>5 DEF Close
<1>6. ASSUME NEW t \in Stoppers, Unlock(t) PROVE IInv'
  BY <1>6 DEF Unlock
<1>7. CASE ContextDone
  BY <1>7 DEF ContextDone, Stoppers
<1>8. CASE ContextEnds
  BY <1>8 DEF ContextEnds
<1>9. CASE Offer
  BY <1>9 DEF Offer, StopReturned
<1>10. CASE Filtered
  <2>1. registered' \in BOOLEAN /\ (~registered' => stopped')
    BY <1>10, Zenon DEF Filtered
  <2>2. offered' \in Nat /\ spc' = "idle"
    BY <1>10 DEF Filtered
  <2>3. UNCHANGED <<mu, stopped, cancelled, closed, panicked, pc, queue, late,
                    delivered, handler>>
    BY <1>10 DEF Filtered
  <2>4. TypeOK'
    BY <2>1, <2>2, <2>3
  <2>5. NoPanic' /\ KeptUntilStopped'
    BY <2>1, <2>3
  <2>6. MutualExclusion' /\ MatchingSent'
    BY <2>2, <2>3
  <2>7. FlagGuardsChannel'
    BY <2>2, <2>3
  <2>8. AnswerFollowsFlag'
    BY <2>2, <2>3
  <2> QED
    BY <2>4, <2>5, <2>6, <2>7, <2>8
<1>11. CASE SendLock
  BY <1>11 DEF SendLock, Stoppers
<1>12. CASE Check
  <2>1. UNCHANGED <<mu, stopped, cancelled, closed, panicked, pc, queue, late,
                    delivered, handler>>
    BY <1>12 DEF Check
  <2>2. CASE stopped /\ registered' = FALSE /\ offered' = offered + 1 /\ spc' = "unlock"
    <3>1. registered' \in BOOLEAN /\ ~registered'
      BY <2>2, Zenon
    <3>2. TypeOK' /\ NoPanic' /\ KeptUntilStopped' /\ MatchingSent'
      BY <2>1, <2>2, <3>1
    <3>3. MutualExclusion' /\ FlagGuardsChannel'
      BY <1>12, <2>1, <2>2 DEF Check
    <3>4. AnswerFollowsFlag'
      BY <2>1, <2>2, <3>1
    <3> QED
      BY <3>2, <3>3, <3>4
  <2>3. CASE ~stopped /\ spc' = "push" /\ UNCHANGED <<registered, offered>>
    BY <1>12, <2>1, <2>3 DEF Check
  <2> QED
    BY <1>12, <2>2, <2>3 DEF Check
<1>13. CASE Push
  BY <1>13 DEF Push, Room
<1>14. CASE SendUnlock
  BY <1>14 DEF SendUnlock
<1>15. CASE Receive
  BY <1>15 DEF Receive
<1>16. CASE SeeEnd
  BY <1>16 DEF SeeEnd
<1>17. CASE Leave
  BY <1>17 DEF Leave
<1>18. CASE UNCHANGED vars
  BY <1>18 DEF vars
<1> QED
  BY <1>1, <1>2, <1>3, <1>4, <1>5, <1>6, <1>7, <1>8, <1>9, <1>10, <1>11, <1>12,
     <1>13, <1>14, <1>15, <1>16, <1>17, <1>18
     DEF Next, InStop, InSend, Finished

LEMMA Invariance == Spec => []IInv
  BY InitIInv, NextIInv, PTL DEF Spec

--------------------------------------------------------------------------------
(* Every variable keeps its type and w.ch its capacity, whoever calls Stop.    *)
THEOREM TypeCorrect == Spec => []TypeOK
<1>1. IInv => TypeOK
  BY DEF IInv
<1> QED
  BY <1>1, Invariance, PTL

(* Stop and send never close w.ch twice nor send on it once closed             *)
(* (watcher.go:43 and 78).                                                     *)
THEOREM NeverPanics == Spec => []NoPanic
<1>1. IInv => NoPanic
  BY DEF IInv
<1> QED
  BY <1>1, Invariance, PTL

(* A broadcast removes stopped watchers only (storage.go:72).                  *)
THEOREM RegistrationKept == Spec => []KeptUntilStopped
<1>1. IInv => KeptUntilStopped
  BY DEF IInv
<1> QED
  BY <1>1, Invariance, PTL

(* After a Stop has returned nothing enters w.ch, and a send called later      *)
(* answers false.                                                              *)
THEOREM StopFinal == Spec => StopIsFinal
<1> DEFINE Quiet ==
      /\ StopReturned => Len(queue') <= Len(queue)
      /\ (late /\ spc # "idle" /\ spc' = "idle") => ~registered'
<1>1. ASSUME IInv, [Next]_vars PROVE Quiet
  <2>1. CASE UNCHANGED <<queue, spc>>
    BY <1>1, <2>1 DEF IInv, TypeOK
  <2>2. CASE Offer
    BY <1>1, <2>2 DEF Offer, IInv, TypeOK
  <2>3. CASE Filtered
    <3>1. late => ~registered'
      BY <1>1, <2>3 DEF Filtered, IInv, AnswerFollowsFlag
    <3> QED
      BY <1>1, <2>3, <3>1 DEF Filtered, IInv, TypeOK
  <2>4. CASE SendLock
    BY <1>1, <2>4 DEF SendLock, IInv, TypeOK
  <2>5. CASE Check
    BY <1>1, <2>5 DEF Check, IInv, TypeOK
  <2>6. CASE Push
    BY <1>1, <2>6 DEF Push, StopReturned, IInv, FlagGuardsChannel
  <2>7. CASE SendUnlock
    BY <1>1, <2>7 DEF SendUnlock, IInv, TypeOK, AnswerFollowsFlag
  <2>8. CASE Receive
    BY <1>1, <2>8 DEF Receive, IInv, TypeOK, sendVars
  <2> QED
    BY <1>1, <2>1, <2>2, <2>3, <2>4, <2>5, <2>6, <2>7, <2>8
       DEF Next, InStop, InSend, Call, Lock, Swap, Cancel, Close, Unlock,
           ContextDone, ContextEnds, SeeEnd, Leave, Finished, vars, sendVars
<1>2. IInv /\ [Next]_vars => [Quiet]_vars
  BY <1>1
<1> QED
  BY <1>2, Invariance, PTL DEF Spec, StopIsFinal

(* The steps of Stop and send implement a bounded stream that is closed and    *)
(* fed atomically (EventStream).                                               *)
THEOREM StreamImplemented == Spec => ImplementsStream
<1>1. Init => Stream!Init
  BY DEF Init, Stream!Init
<1>2. ASSUME IInv, [Next]_vars PROVE [Stream!Next]_Stream!vars
  <2> USE <1>2
  <2>1. CASE UNCHANGED <<stopped, offered, queue, delivered, handler>>
    BY <2>1 DEF Stream!vars
  <2>2. ASSUME NEW t \in Stoppers, Swap(t) PROVE Stream!Close
    BY <2>2 DEF Swap, Stream!Close, sendVars, handlerVars
  <2>3. ASSUME Filtered PROVE Stream!PassOver
    BY <2>3 DEF Filtered, Stream!PassOver, Stream!Upcoming, stopVars, handlerVars
  <2>4. ASSUME Check PROVE Stream!PassOver \/ UNCHANGED Stream!vars
    <3>1. UNCHANGED <<stopped, queue, delivered, handler>>
      BY <2>4 DEF Check, stopVars, handlerVars
    <3>2. CASE stopped /\ offered' = offered + 1
      BY <3>1, <3>2 DEF Stream!PassOver, Stream!Upcoming
    <3>3. CASE UNCHANGED offered
      BY <3>1, <3>3 DEF Stream!vars
    <3> QED
      BY <2>4, <3>2, <3>3 DEF Check
  <2>5. ASSUME Push PROVE Stream!Accept \/ Stream!PassOver
    <3>1. /\ ~stopped /\ ~closed
          /\ offered + 1 \in Matching
          /\ Len(queue) \in Nat /\ Len(queue) <= ChanSize
      BY <2>5 DEF Push, IInv, FlagGuardsChannel, MatchingSent, TypeOK
    <3>2. UNCHANGED <<stopped, delivered, handler>>
      BY <2>5 DEF Push, handlerVars
    <3>3. offered' = offered + 1
      BY <2>5 DEF Push
    <3>4. CASE Room
      <4>1. queue' = Append(queue, offered + 1)
        BY <2>5, <3>1, <3>4 DEF Push
      <4> QED
        BY <3>1, <3>2, <3>3, <3>4, <4>1 DEF Room, Stream!Accept, Stream!Upcoming
    <3>5. CASE ~Room
      <4>1. queue' = queue
        BY <2>5, <3>5 DEF Push
      <4>2. Len(queue) = ChanSize
        BY <3>1, <3>5, SizeAssumption DEF SizeAssumption, Room
      <4> QED
        BY <3>2, <3>3, <4>1, <4>2 DEF Stream!PassOver, Stream!Upcoming
    <3> QED
      BY <3>4, <3>5
  <2>6. ASSUME Receive PROVE Stream!Receive
    BY <2>6 DEF Receive, Stream!Receive, stopVars, sendVars
  <2>7. ASSUME SeeEnd PROVE Stream!End
    <3>1. stopped /\ queue = <<>> /\ handler' = "end"
      BY <2>7 DEF SeeEnd, IInv, FlagGuardsChannel
    <3>2. UNCHANGED <<stopped, offered, queue, delivered>>
      BY <2>7 DEF SeeEnd, stopVars, sendVars
    <3> QED
      BY <3>1, <3>2 DEF Stream!End
  <2>8. ASSUME Leave PROVE UNCHANGED Stream!vars
    <3>1. handler = "watching" /\ handler' = "gone"
      BY <2>8 DEF Leave
    <3>2. UNCHANGED <<stopped, offered, queue, delivered>>
      BY <2>8 DEF Leave, stopVars, sendVars
    <3> QED
      BY <3>1, <3>2 DEF Stream!vars
  <2> QED
    BY <2>1, <2>2, <2>3, <2>4, <2>5, <2>6, <2>7, <2>8
       DEF Next, InStop, InSend, Call, Lock, Cancel, Close, Unlock, ContextDone,
           ContextEnds, Offer, SendLock, SendUnlock, Finished, vars, stopVars,
           sendVars, handlerVars, Stream!Next
<1> QED
  BY <1>1, <1>2, Invariance, PTL DEF Spec, Stream!Spec, ImplementsStream
================================================================================
