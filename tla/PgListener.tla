------------------------------ MODULE PgListener -------------------------------
(* The listener of PostgresStorage, pkg/registry/solution/storage_postgres.go: *)
(* the goroutine that holds a connection of its own, LISTENs on it, broadcasts *)
(* what it is notified of and connects again when the connection is lost;      *)
(* against the transactions that NOTIFY, Watch, Stop and Destroy.              *)
(*                                                                             *)
(* Notifications are numbered in the order of their commits, the order in      *)
(* which PostgreSQL sends them (notified of PostgresStorage).  The length of a *)
(* backoff is abstracted: its timer fires some time.  What send does with an   *)
(* event is in Watcher.                                                        *)
EXTENDS Naturals, Sequences, Functions

CONSTANTS
    Watches,          \* watch requests
    Statements,       \* SQL statements of requests, on connections of the pool
    Malformed,        \* notifications that cannot be decoded
    NotifySize,       \* capacity of the channel notifications
    MaxAttempts,      \* maxAttempts
    MaxNotifications  \* bound: notifications committed in a behavior

ASSUME MalformedAssumption == Malformed \subseteq Nat \ {0}
ASSUME BoundsAssumption ==
    /\ NotifySize \in Nat \ {0}
    /\ MaxAttempts \in Nat \ {0}
    /\ MaxNotifications \in Nat

VARIABLES
    committed,   \* number of notifications whose transactions have committed
    session,     \* the server's end of the connection: what it has got to
    wire,        \* sent on the connection and not yet read
    cancelled,   \* lctx is done
    lpc,         \* where the listener is
    attempt,
    channel,     \* notifications, the channel of the current listenOnce
    told,        \* notifications broadcast
    watch,       \* what became of each watch request
    registered,  \* s.watchers
    destroy,     \* where Destroy is
    acquired,    \* statements that hold a connection of the pool
    drained,     \* history: the channel has been emptied on this connection
    inARow,      \* history: failures since the last LISTEN that succeeded,
                 \* counted up to MaxAttempts
    late         \* history: watches registered when Destroy had stopped the others

serverVars  == <<committed, session, wire>>
loopVars    == <<lpc, attempt, channel, told, drained, inARow>>
watchVars   == <<watch, registered, late>>
destroyVars == <<cancelled, destroy, acquired>>
vars == <<serverVars, loopVars, watchVars, destroyVars>>

(* NewPostgresStorage starts the goroutine.                                    *)
Init ==
    /\ committed = 0
    /\ session = "none"
    /\ wire = <<>>
    /\ cancelled = FALSE
    /\ lpc = "try"
    /\ attempt = 0
    /\ channel = <<>>
    /\ told = <<>>
    /\ watch = [w \in Watches |-> "new"]
    /\ registered = {}
    /\ destroy = "idle"
    /\ acquired = {}
    /\ drained = FALSE
    /\ inARow = 0
    /\ late = {}

--------------------------------------------------------------------------------
(* PostgreSQL.  A session hears what commits from the commit of its LISTEN on; *)
(* what commits before ReadyForQuery is sent comes before it.                  *)

Ready == 0  \* ReadyForQuery, the end of the answer to LISTEN

Commit ==
    /\ committed < MaxNotifications
    /\ committed' = committed + 1
    /\ wire' = IF session \in {"listening", "idle"} THEN Append(wire, committed + 1) ELSE wire
    /\ UNCHANGED <<session, loopVars, watchVars, destroyVars>>

CommitListen ==
    /\ session = "asked"
    /\ session' = "listening"
    /\ UNCHANGED <<committed, wire, loopVars, watchVars, destroyVars>>

SendReady ==
    /\ session = "listening"
    /\ session' = "idle"
    /\ wire' = Append(wire, Ready)
    /\ UNCHANGED <<committed, loopVars, watchVars, destroyVars>>

--------------------------------------------------------------------------------
(* listenLoop and listenOnce.                                                  *)

(* listenOnce returns: its connection is closed, its channel is garbage.       *)
Disconnect ==
    /\ session' = "none"
    /\ wire' = <<>>
    /\ channel' = <<>>
    /\ drained' = FALSE

(* The head of the loop.                                                       *)
Try ==
    /\ lpc = "try"
    /\ lpc' = IF attempt < MaxAttempts /\ ~cancelled THEN "connect" ELSE "exited"
    /\ UNCHANGED <<serverVars, attempt, channel, told, drained, inARow, watchVars, destroyVars>>

Connect ==
    /\ lpc = "connect"
    /\ lpc' = "listen"
    /\ session' = "asked"
    /\ UNCHANGED <<committed, wire, attempt, channel, told, drained, inARow,
                   watchVars, destroyVars>>

Room == Len(channel) < NotifySize

(* Mutant: the channel takes one notification more.                            *)
PushOneMore(n) ==
    channel' = IF Len(channel) <= NotifySize THEN Append(channel, n) ELSE channel

(* OnNotification: a full channel drops.                                       *)
Push(n) == channel' = IF Room THEN Append(channel, n) ELSE channel

(* WaitForNotification begins by looking at the context.                       *)
NextWait == IF cancelled THEN "interrupted" ELSE "wait"

(* Mutant: OnNotification is set once LISTEN has been answered.                *)
ReadAnswerUnheard ==
    /\ lpc = "listen"
    /\ wire # <<>>
    /\ wire' = Tail(wire)
    /\ \/ /\ Head(wire) # Ready
          /\ UNCHANGED <<lpc, inARow>>
       \/ /\ Head(wire) = Ready
          /\ lpc' = NextWait
          /\ inARow' = 0
    /\ UNCHANGED <<committed, session, attempt, channel, told, drained, watchVars, destroyVars>>

(* conn.Exec(ctx, "LISTEN solutions").ReadAll(), message by message.           *)
ReadAnswer ==
    /\ lpc = "listen"
    /\ wire # <<>>
    /\ wire' = Tail(wire)
    /\ \/ /\ Head(wire) # Ready
          /\ Push(Head(wire))
          /\ UNCHANGED <<lpc, inARow>>
       \/ /\ Head(wire) = Ready
          /\ lpc' = NextWait
          /\ inARow' = 0
          /\ UNCHANGED channel
    /\ UNCHANGED <<committed, session, attempt, told, drained, watchVars, destroyVars>>

(* WaitForNotification returns after one notification.                         *)
Read ==
    /\ lpc = "wait"
    /\ wire # <<>>
    /\ wire' = Tail(wire)
    /\ Push(Head(wire))
    /\ lpc' = "drain"
    /\ UNCHANGED <<committed, session, attempt, told, drained, inARow, watchVars, destroyVars>>

(* Mutant: a watcher whose channel is full is taken for stopped.               *)
broadcastEvicting(n) ==
    /\ told' = Append(told, n)
    /\ \E slow \in SUBSET registered :
          registered' = {w \in registered \ slow : watch[w] # "stopped"}

(* broadcast: the watchers that have been stopped leave the list.              *)
broadcast(n) ==
    /\ told' = Append(told, n)
    /\ registered' = {w \in registered : watch[w] # "stopped"}

(* Mutant: the drain ends at a notification it cannot decode.                  *)
DrainUntilMalformed ==
    /\ lpc = "drain"
    /\ channel # <<>>
    /\ channel' = Tail(channel)
    /\ \/ /\ Head(channel) \in Malformed
          /\ lpc' = NextWait
          /\ UNCHANGED <<told, registered>>
       \/ /\ Head(channel) \notin Malformed
          /\ broadcast(Head(channel))
          /\ UNCHANGED lpc
    /\ UNCHANGED <<serverVars, attempt, drained, inARow, watch, late, destroyVars>>

(* Mutant: go s.broadcast(eventType, sol).                                     *)
DrainConcurrently ==
    /\ lpc = "drain"
    /\ \E i \in DOMAIN channel :
          /\ channel' = SubSeq(channel, 1, i - 1) \o SubSeq(channel, i + 1, Len(channel))
          /\ IF channel[i] \in Malformed THEN UNCHANGED <<told, registered>>
                                         ELSE broadcast(channel[i])
    /\ UNCHANGED <<serverVars, lpc, attempt, drained, inARow, watch, late, destroyVars>>

Drain ==
    /\ lpc = "drain"
    /\ channel # <<>>
    /\ channel' = Tail(channel)
    /\ \/ /\ Head(channel) \in Malformed
          /\ UNCHANGED <<told, registered>>
       \/ /\ Head(channel) \notin Malformed
          /\ broadcast(Head(channel))
    /\ UNCHANGED <<serverVars, lpc, attempt, drained, inARow, watch, late, destroyVars>>

EndDrain ==
    /\ lpc = "drain"
    /\ channel = <<>>
    /\ drained' = TRUE
    /\ lpc' = NextWait
    /\ UNCHANGED <<serverVars, attempt, channel, told, inARow, watchVars, destroyVars>>

CountFailure == inARow' = IF inARow < MaxAttempts THEN inARow + 1 ELSE inARow

(* Mutant: an error of WaitForNotification always counts as a clean shutdown.  *)
FailForGood ==
    /\ lpc \in {"connect", "listen", "wait"}
    /\ Disconnect
    /\ lpc' = IF cancelled \/ lpc = "wait" THEN "exited" ELSE "backoff"
    /\ CountFailure
    /\ UNCHANGED <<committed, attempt, told, watchVars, destroyVars>>

(* ConnectConfig, LISTEN or WaitForNotification fails: the server refuses or   *)
(* ends the connection, or the network does.                                   *)
Fail ==
    /\ lpc \in {"connect", "listen", "wait"}
    /\ Disconnect
    /\ lpc' = IF cancelled THEN "exited" ELSE "backoff"
    /\ CountFailure
    /\ UNCHANGED <<committed, attempt, told, watchVars, destroyVars>>

(* Mutant: WaitForNotification is called without the context.                  *)
InterruptNotInWait ==
    /\ \/ lpc = "interrupted"
       \/ lpc \in {"connect", "listen"} /\ cancelled
    /\ Disconnect
    /\ lpc' = "exited"
    /\ UNCHANGED <<committed, attempt, told, inARow, watchVars, destroyVars>>

(* The call in progress, or the next, returns because lctx is done.            *)
Interrupt ==
    /\ \/ lpc = "interrupted"
       \/ lpc \in {"connect", "listen", "wait"} /\ cancelled
    /\ Disconnect
    /\ lpc' = "exited"
    /\ UNCHANGED <<committed, attempt, told, inARow, watchVars, destroyVars>>

(* Mutant: the loop counts nothing.                                            *)
BackoffUncounted ==
    /\ lpc = "backoff"
    /\ lpc' = IF cancelled THEN "exited" ELSE "try"
    /\ UNCHANGED <<serverVars, attempt, channel, told, drained, inARow, watchVars, destroyVars>>

(* The select: lctx is done, or the timer fires; both may be ready.            *)
Backoff ==
    /\ lpc = "backoff"
    /\ \/ /\ cancelled
          /\ lpc' = "exited"
          /\ UNCHANGED attempt
       \/ /\ lpc' = "try"
          /\ attempt' = attempt + 1
    /\ UNCHANGED <<serverVars, channel, told, drained, inARow, watchVars, destroyVars>>

--------------------------------------------------------------------------------
(* Watch, Stop and Destroy.                                                    *)

(* Destroy has stopped the watchers it found.                                  *)
StoppedAll == destroy \in {"close", "wait", "done"}

Watch(w) ==
    /\ watch[w] = "new"
    /\ watch' = [watch EXCEPT ![w] = "live"]
    /\ registered' = registered \cup {w}
    /\ late' = IF StoppedAll THEN late \cup {w} ELSE late
    /\ UNCHANGED <<serverVars, loopVars, destroyVars>>

(* By the watch handler, or because the context of the watch has ended.        *)
Stop(w) ==
    /\ watch[w] = "live"
    /\ watch' = [watch EXCEPT ![w] = "stopped"]
    /\ UNCHANGED <<serverVars, loopVars, registered, late, destroyVars>>

Cancel ==
    /\ destroy = "idle"
    /\ destroy' = "join"
    /\ cancelled' = TRUE
    /\ UNCHANGED <<serverVars, loopVars, watchVars, acquired>>

(* Mutant: Destroy does not wait for the listener.                             *)
JoinNobody ==
    /\ destroy = "join"
    /\ destroy' = "stop"
    /\ UNCHANGED <<serverVars, loopVars, watchVars, cancelled, acquired>>

(* <-s.listenerDone                                                            *)
Join ==
    /\ destroy = "join"
    /\ lpc = "exited"
    /\ destroy' = "stop"
    /\ UNCHANGED <<serverVars, loopVars, watchVars, cancelled, acquired>>

StopAll ==
    /\ destroy = "stop"
    /\ destroy' = "close"
    /\ watch' = [w \in Watches |-> IF w \in registered THEN "stopped" ELSE watch[w]]
    /\ registered' = {}
    /\ UNCHANGED <<serverVars, loopVars, late, cancelled, acquired>>

(* s.db.Close(): the pool gives out no connection from now on ...              *)
CloseDB ==
    /\ destroy = "close"
    /\ destroy' = "wait"
    /\ UNCHANGED <<serverVars, loopVars, watchVars, cancelled, acquired>>

(* ... and has those it gave out returned before Close returns.                *)
PoolDrained ==
    /\ destroy = "wait"
    /\ acquired = {}
    /\ destroy' = "done"
    /\ UNCHANGED <<serverVars, loopVars, watchVars, cancelled, acquired>>

(* s.db.Query, QueryRow or Exec of a request, which Destroy does not hold off. *)
Acquire(s) ==
    /\ destroy \notin {"wait", "done"}
    /\ s \notin acquired
    /\ acquired' = acquired \cup {s}
    /\ UNCHANGED <<serverVars, loopVars, watchVars, cancelled, destroy>>

(* The statement has been answered, or its context has ended.                  *)
Release(s) ==
    /\ s \in acquired
    /\ acquired' = acquired \ {s}
    /\ UNCHANGED <<serverVars, loopVars, watchVars, cancelled, destroy>>

--------------------------------------------------------------------------------
Listener == \/ Try \/ Connect \/ ReadAnswer \/ Read \/ Drain \/ EndDrain
            \/ Interrupt \/ Backoff

Destroyer == Join \/ StopAll \/ CloseDB \/ PoolDrained

(* Destroy has returned and nothing more is going to happen.                   *)
Finished ==
    /\ destroy = "done"
    /\ committed = MaxNotifications
    /\ \A w \in Watches : watch[w] = "stopped"
    /\ UNCHANGED vars

Next ==
    \/ Commit \/ CommitListen \/ SendReady
    \/ Listener \/ Fail
    \/ \E w \in Watches : Watch(w) \/ Stop(w)
    \/ Cancel \/ Destroyer
    \/ \E s \in Statements : Acquire(s) \/ Release(s)
    \/ Finished

Spec == Init /\ [][Next]_vars

(* The server answers a LISTEN and the network delivers, unless a Fail comes   *)
(* first; a call returns when its context is done, and every request's context *)
(* has a deadline; goroutines that can run do.  Nothing has to commit, to fail *)
(* or to call Destroy.                                                         *)
FairSpec ==
    /\ Spec
    /\ WF_vars(CommitListen) /\ WF_vars(SendReady)
    /\ WF_vars(Listener) /\ WF_vars(Destroyer)
    /\ \A s \in Statements : WF_vars(Release(s))

--------------------------------------------------------------------------------
(* Properties.                                                                 *)

UnderWay == (Range(wire) \cup Range(channel)) \ {Ready}

(* Every variable keeps its type, and the channel its capacity.                *)
TypeOK ==
    /\ committed \in Nat
    /\ session \in {"none", "asked", "listening", "idle"}
    /\ wire \in Seq(Nat)
    /\ cancelled \in BOOLEAN
    /\ lpc \in {"try", "connect", "listen", "wait", "drain", "interrupted", "backoff", "exited"}
    /\ attempt \in 0..MaxAttempts
    /\ channel \in Seq(Nat \ {Ready}) /\ Len(channel) <= NotifySize
    /\ told \in Seq(Nat)
    /\ watch \in [Watches -> {"new", "live", "stopped"}]
    /\ registered \subseteq Watches
    /\ destroy \in {"idle", "join", "stop", "close", "wait", "done"}
    /\ acquired \subseteq Statements
    /\ drained \in BOOLEAN
    /\ inARow \in 0..MaxAttempts
    /\ late \subseteq Watches

(* Over any number of connections, what is broadcast are notifications in the  *)
(* order of their commits, none twice, and none once Destroy has stopped the   *)
(* watchers.                                                                   *)
Feed == INSTANCE NotificationFeed WITH open <- ~StoppedAll

ImplementsFeed == Feed!Spec

(* A notification the server has sent is lost in two cases only: its           *)
(* connection ends, or the channel is full before it is drained for the first  *)
(* time.  One read by a WaitForNotification after that always finds room.      *)
LossExplained ==
    [][ \A n \in UnderWay \ UnderWay' :
            \/ n \in Range(told') \cup Malformed
            \/ session' = "none"
            \/ ~Room /\ ~drained ]_vars

(* Nobody but Destroy, or MaxAttempts failures, ends the listener.             *)
ExitsForAReason == lpc = "exited" => cancelled \/ attempt = MaxAttempts

(* Destroy leaves no watch open ("All watchers stopped",                       *)
(* docs/superpowers/specs/2026-04-27-watch-listen-notify-design.md:149), and   *)
(* none without a stop or a list to stop it from; except those that register   *)
(* when it has stopped the others.                                             *)
DestroyStopsWatches ==
    \A w \in Watches : watch[w] = "live" =>
        /\ w \in registered
        /\ StoppedAll => w \in late

(* Destroy returns, whatever the listener and the requests were doing: it waits*)
(* for the goroutine that it has cancelled, then for the connections of the    *)
(* pool, which requests may still acquire until it closes the pool.            *)
DestroyReturns == (destroy = "join") ~> (destroy = "done")

(* A lost or refused connection is followed by a connection that listens, or   *)
(* by the end of the listener: it does not go on failing for ever.             *)
RecoversOrExits == (lpc = "backoff") ~> (lpc \in {"wait", "exited"})

(* What reaches a listener that waits with room in its channel is broadcast    *)
(* before long, unless the listener leaves its loop.                           *)
ReceivedIsTold ==
    \A n \in (1..MaxNotifications) \ Malformed :
        (lpc = "wait" /\ Room /\ n \in Range(wire)) ~>
            (n \in Range(told) \/ lpc \notin {"wait", "drain"})

--------------------------------------------------------------------------------
(* What the design says and the code does not do.                              *)

(* "On error (connection lost): retries with exponential backoff [...]         *)
(* (5 attempts). If all fail, logs and returns" (watch-listen-notify-design    *)
(* .md:129): it returns only after that many failures in a row.                *)
GivesUpAfterFailuresInARow ==
    (lpc = "exited" /\ ~cancelled) => inARow >= MaxAttempts
================================================================================
