-------------------------------- MODULE Watcher --------------------------------
(* One watcher of pkg/registry/solution/watcher.go, step by step: calls of     *)
(* Stop by the watch handler, by Destroy and by the goroutine that waits for   *)
(* the end of the context, against the sends of a broadcast and the receives   *)
(* of the watch handler.                                                       *)
(*                                                                             *)
(* Broadcasts come one at a time (InMemoryStorage.broadcast holds s.mu,        *)
(* PostgresStorage.broadcast holds s.watchMu), so one sender is enough.  Events*)
(* are numbered in the order they are broadcast.                               *)
EXTENDS Naturals, Sequences

CONSTANTS
    Callers,    \* callers of Stop other than the goroutine
    Goroutine,  \* the goroutine newWatcher starts
    Sender,     \* the goroutine that broadcasts
    Nobody,
    Matching,   \* numbers of the broadcast events that match ns and fieldSel
    ChanSize,   \* watchChanSize
    MaxEvents   \* bound: events broadcast in a behavior

Stoppers == Callers \cup {Goroutine}

ASSUME ThreadsAssumption ==
    /\ Goroutine \notin Callers
    /\ Sender \notin Stoppers
    /\ Nobody \notin Stoppers \cup {Sender}
ASSUME SizeAssumption == ChanSize \in Nat \ {0} /\ MaxEvents \in Nat

VARIABLES
    mu,         \* holder of w.mu
    stopped,    \* w.stopped # 0
    cancelled,  \* wctx is done
    closed,     \* w.ch is closed
    queue,      \* events buffered in w.ch
    panicked,   \* close of, or send on, a closed channel
    pc,         \* where each caller of Stop is
    spc,        \* where the sender is
    offered,    \* number of events the sender has decided upon
    registered, \* the watcher is in the storage's list
    late,       \* history: a Stop had returned when the current send was called
    delivered,  \* events the handler has received
    handler     \* "watching", has seen the "end" of w.ch, or is "gone"

stopVars    == <<mu, stopped, cancelled, closed, panicked, pc>>
sendVars    == <<spc, offered, registered, late>>
handlerVars == <<delivered, handler>>
vars == <<stopVars, queue, sendVars, handlerVars>>

(* newWatcher; the storage then appends w to its list.                         *)
Init ==
    /\ mu = Nobody
    /\ stopped = FALSE
    /\ cancelled = FALSE
    /\ closed = FALSE
    /\ queue = <<>>
    /\ panicked = FALSE
    /\ pc = [t \in Stoppers |-> IF t = Goroutine THEN "waiting" ELSE "idle"]
    /\ spc = "idle"
    /\ offered = 0
    /\ registered = TRUE
    /\ late = FALSE
    /\ delivered = <<>>
    /\ handler = "watching"

--------------------------------------------------------------------------------
(* Stop.                                                                       *)

Goto(t, label) == pc' = [pc EXCEPT ![t] = label]

Call(t) ==
    /\ pc[t] = "idle"
    /\ Goto(t, "lock")
    /\ UNCHANGED <<mu, stopped, cancelled, closed, panicked, queue, sendVars, handlerVars>>

(* <-ctx.Done(), then w.Stop().                                                *)
ContextDone ==
    /\ pc[Goroutine] = "waiting"
    /\ cancelled
    /\ Goto(Goroutine, "lock")
    /\ UNCHANGED <<mu, stopped, cancelled, closed, panicked, queue, sendVars, handlerVars>>

Lock(t) ==
    /\ pc[t] = "lock"
    /\ mu = Nobody
    /\ mu' = t
    /\ Goto(t, "swap")
    /\ UNCHANGED <<stopped, cancelled, closed, panicked, queue, sendVars, handlerVars>>

(* Mutant: the flag is set without looking at it.                              *)
SwapAlways(t) ==
    /\ pc[t] = "swap"
    /\ stopped' = TRUE
    /\ Goto(t, "cancel")
    /\ UNCHANGED <<mu, cancelled, closed, panicked, queue, sendVars, handlerVars>>

(* if atomic.CompareAndSwapUint32(&w.stopped, 0, 1)                            *)
Swap(t) ==
    /\ pc[t] = "swap"
    /\ stopped' = TRUE
    /\ Goto(t, IF stopped THEN "unlock" ELSE "cancel")
    /\ UNCHANGED <<mu, cancelled, closed, panicked, queue, sendVars, handlerVars>>

(* Mutant: Stop leaves the context of the watcher alone.                       *)
CancelNothing(t) ==
    /\ pc[t] = "cancel"
    /\ Goto(t, "close")
    /\ UNCHANGED <<mu, stopped, cancelled, closed, panicked, queue, sendVars, handlerVars>>

Cancel(t) ==
    /\ pc[t] = "cancel"
    /\ cancelled' = TRUE
    /\ Goto(t, "close")
    /\ UNCHANGED <<mu, stopped, closed, panicked, queue, sendVars, handlerVars>>

(* Mutant: Stop leaves w.ch open.                                              *)
CloseNothing(t) ==
    /\ pc[t] = "close"
    /\ Goto(t, "unlock")
    /\ UNCHANGED <<mu, stopped, cancelled, closed, panicked, queue, sendVars, handlerVars>>

(* close(w.ch): Go panics when it is closed already.                           *)
Close(t) ==
    /\ pc[t] = "close"
    /\ closed' = TRUE
    /\ panicked' = (panicked \/ closed)
    /\ Goto(t, "unlock")
    /\ UNCHANGED <<mu, stopped, cancelled, queue, sendVars, handlerVars>>

Unlock(t) ==
    /\ pc[t] = "unlock"
    /\ mu' = Nobody
    /\ Goto(t, "done")
    /\ UNCHANGED <<stopped, cancelled, closed, panicked, queue, sendVars, handlerVars>>

(* The client disconnects or the request times out.                            *)
ContextEnds ==
    /\ ~cancelled
    /\ cancelled' = TRUE
    /\ UNCHANGED <<mu, stopped, closed, panicked, pc, queue, sendVars, handlerVars>>

--------------------------------------------------------------------------------
(* send, and what the broadcast does with the answer.                          *)

StopReturned == \E t \in Stoppers : pc[t] = "done"

Offer ==
    /\ spc = "idle"
    /\ registered
    /\ offered < MaxEvents
    /\ spc' = "filter"
    /\ late' = StopReturned
    /\ UNCHANGED <<stopVars, queue, offered, registered, handlerVars>>

(* Mutant: a filtered event always leaves the watcher in the list.             *)
FilteredAlive ==
    /\ spc = "filter"
    /\ offered + 1 \notin Matching
    /\ offered' = offered + 1
    /\ spc' = "idle"
    /\ UNCHANGED <<stopVars, queue, registered, late, handlerVars>>

(* return !w.isStopped(): read without w.mu.                                   *)
Filtered ==
    /\ spc = "filter"
    /\ offered + 1 \notin Matching
    /\ offered' = offered + 1
    /\ registered' = ~stopped
    /\ spc' = "idle"
    /\ UNCHANGED <<stopVars, queue, late, handlerVars>>

SendLock ==
    /\ spc = "filter"
    /\ offered + 1 \in Matching
    /\ mu = Nobody
    /\ mu' = Sender
    /\ spc' = "check"
    /\ UNCHANGED <<stopped, cancelled, closed, panicked, pc, queue,
                   offered, registered, late, handlerVars>>

Check ==
    /\ spc = "check"
    /\ \/ /\ stopped
          /\ registered' = FALSE
          /\ offered' = offered + 1
          /\ spc' = "unlock"
       \/ /\ ~stopped
          /\ spc' = "push"
          /\ UNCHANGED <<registered, offered>>
    /\ UNCHANGED <<stopVars, queue, late, handlerVars>>

Room == Len(queue) < ChanSize

(* Mutant: the channel takes one event more.                                   *)
PushOneMore ==
    /\ spc = "push"
    /\ queue' = IF Len(queue) <= ChanSize THEN Append(queue, offered + 1) ELSE queue
    /\ offered' = offered + 1
    /\ spc' = "unlock"
    /\ UNCHANGED <<stopVars, registered, late, handlerVars>>

(* Mutant: a full channel loses its oldest event.                              *)
PushOut ==
    /\ spc = "push"
    /\ queue' = Append(IF Room THEN queue ELSE Tail(queue), offered + 1)
    /\ offered' = offered + 1
    /\ spc' = "unlock"
    /\ UNCHANGED <<stopVars, registered, late, handlerVars>>

(* Mutant: no default case, the send waits for room.                           *)
PushBlocking ==
    /\ spc = "push"
    /\ Room
    /\ queue' = Append(queue, offered + 1)
    /\ offered' = offered + 1
    /\ spc' = "unlock"
    /\ UNCHANGED <<stopVars, registered, late, handlerVars>>

(* Mutant: a watcher that does not keep up is taken for stopped.               *)
PushOrEvict ==
    /\ spc = "push"
    /\ queue' = IF Room THEN Append(queue, offered + 1) ELSE queue
    /\ registered' = Room
    /\ offered' = offered + 1
    /\ spc' = "unlock"
    /\ UNCHANGED <<stopVars, late, handlerVars>>

(* select { case w.ch <- ev: default: }: Go panics when w.ch is closed.        *)
Push ==
    /\ spc = "push"
    /\ panicked' = (panicked \/ closed)
    /\ queue' = IF Room /\ ~closed THEN Append(queue, offered + 1) ELSE queue
    /\ offered' = offered + 1
    /\ spc' = "unlock"
    /\ UNCHANGED <<mu, stopped, cancelled, closed, pc, registered, late, handlerVars>>

SendUnlock ==
    /\ spc = "unlock"
    /\ mu' = Nobody
    /\ spc' = "idle"
    /\ UNCHANGED <<stopped, cancelled, closed, panicked, pc, queue,
                   offered, registered, late, handlerVars>>

--------------------------------------------------------------------------------
(* The watch handler: reads w.ch until its end, or leaves when its client does.*)

Receive ==
    /\ handler = "watching"
    /\ queue # <<>>
    /\ queue' = Tail(queue)
    /\ delivered' = Append(delivered, Head(queue))
    /\ UNCHANGED <<stopVars, sendVars, handler>>

SeeEnd ==
    /\ handler = "watching"
    /\ queue = <<>>
    /\ closed
    /\ handler' = "end"
    /\ UNCHANGED <<stopVars, queue, sendVars, delivered>>

Leave ==
    /\ handler = "watching"
    /\ cancelled
    /\ handler' = "gone"
    /\ UNCHANGED <<stopVars, queue, sendVars, delivered>>

--------------------------------------------------------------------------------
InStop(t) == Lock(t) \/ Swap(t) \/ Cancel(t) \/ Close(t) \/ Unlock(t)
InSend    == Filtered \/ SendLock \/ Check \/ Push \/ SendUnlock

(* Everybody has returned, and the sender has no event left for this watcher.  *)
Finished ==
    /\ \A t \in Stoppers : pc[t] = "done"
    /\ spc = "idle" /\ (~registered \/ offered = MaxEvents)
    /\ handler # "watching"
    /\ UNCHANGED vars

Next ==
    \/ \E t \in Stoppers : Call(t) \/ InStop(t)
    \/ ContextDone \/ ContextEnds
    \/ Offer \/ InSend
    \/ Receive \/ SeeEnd \/ Leave
    \/ Finished

Spec == Init /\ [][Next]_vars

(* Goroutines that can run do run, and sync.Mutex serves each waiter before    *)
(* long (its starvation mode).  The handler's select picks a ready case: it    *)
(* cannot be assumed to leave, but it does receive what is there.              *)
FairSpec ==
    /\ Spec
    /\ \A t \in Stoppers : SF_vars(InStop(t))
    /\ WF_vars(ContextDone)
    /\ SF_vars(InSend)
    /\ WF_vars(Receive \/ SeeEnd)

--------------------------------------------------------------------------------
(* Properties.                                                                 *)

(* Every variable keeps its type, and the channel its capacity.                *)
TypeOK ==
    /\ mu \in Stoppers \cup {Sender, Nobody}
    /\ stopped \in BOOLEAN
    /\ cancelled \in BOOLEAN
    /\ closed \in BOOLEAN
    /\ queue \in Seq(Nat) /\ Len(queue) <= ChanSize
    /\ panicked \in BOOLEAN
    /\ pc \in [Stoppers -> {"waiting", "idle", "lock", "swap", "cancel",
                            "close", "unlock", "done"}]
    /\ spc \in {"idle", "filter", "check", "push", "unlock"}
    /\ offered \in Nat
    /\ registered \in BOOLEAN
    /\ late \in BOOLEAN
    /\ delivered \in Seq(Nat)
    /\ handler \in {"watching", "end", "gone"}

(* No interleaving of Stop (safe to call multiple times, watcher.go:43) and    *)
(* send closes w.ch twice or sends on it once closed ("prevents                *)
(* send-on-closed-channel", watcher.go:78); either would end the API server.   *)
NoPanic == ~panicked

(* broadcast takes a watcher out of its list only after a Stop: neither a      *)
(* filtered event nor a full channel costs a live watcher its registration.    *)
KeptUntilStopped == ~registered => stopped

(* Once a Stop has returned, nothing enters w.ch any more, and a send called   *)
(* after that answers false, whether or not its event passes the filter.       *)
StopIsFinal ==
    [][ /\ StopReturned => Len(queue') <= Len(queue)
        /\ (late /\ spc # "idle" /\ spc' = "idle") => ~registered' ]_vars

(* Seen from outside, Stop and send are atomic: the steps above, with their    *)
(* two locks and two flags, add up to a bounded stream that loses an event     *)
(* only when full and adds none after Stop.                                    *)
Stream == INSTANCE EventStream WITH closed <- stopped, ended <- (handler = "end")

ImplementsStream == Stream!Spec

(* Every Stop returns, even when the handler has left the channel full.        *)
StopReturns == \A t \in Stoppers : (pc[t] = "lock") ~> (pc[t] = "done")

(* "The watcher is automatically stopped when ctx is cancelled"                *)
(* (watcher.go:28): then the handler sees the end, unless it has left by itself.*)
StreamEnds == cancelled ~> (handler \in {"end", "gone"})

(* Stop ends the goroutine that newWatcher started, whoever called Stop.       *)
GoroutineEnds == stopped ~> (pc[Goroutine] = "done")
================================================================================
