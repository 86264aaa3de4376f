--------------------------- MODULE PgListenerProofs ----------------------------
(* Proofs about PgListener for any number of watches, notifications and        *)
(* attempts and any capacity of the channel.                                   *)
EXTENDS PgListener, TLAPS

(* Nobody shuts down while the listener runs, and it is interrupted only once  *)
(* its context has been cancelled.                                             *)
LoopInv ==
    /\ lpc \in {"connect", "listen", "wait", "drain", "interrupted", "backoff"} =>
          attempt < MaxAttempts
    /\ lpc = "interrupted" => cancelled
    /\ destroy = "stop" \/ StoppedAll => lpc = "exited"

(* Both ends of the connection go together, ReadyForQuery is sent once and is  *)
(* read by the LISTEN it answers, and only a LISTEN leaves notifications in    *)
(* the channel of a listener that waits.                                       *)
ConnectionInv ==
    /\ session = "none" <=> lpc \in {"try", "connect", "backoff", "exited"}
    /\ session = "none" => wire = <<>> /\ channel = <<>> /\ ~drained
    /\ session \in {"asked", "listening"} => lpc = "listen"
    /\ \A i \in 1..Len(wire) : wire[i] = Ready =>
          /\ lpc = "listen"
          /\ session = "idle"
          /\ \A j \in 1..Len(wire) : wire[j] = Ready => i = j
    /\ drained => lpc # "listen"
    /\ drained /\ lpc \in {"wait", "interrupted"} => channel = <<>>

(* What has been told, up to "last", what is in the channel and what is on the *)
(* wire increase in this order and do not exceed what is committed, "top".     *)
Ordered(last, chan, sent, top) ==
    /\ last <= top
    /\ \A i \in 1..Len(chan) : last < chan[i] /\ chan[i] <= top
    /\ \A i, j \in 1..Len(chan) : i < j => chan[i] < chan[j]
    /\ \A j \in 1..Len(sent) : sent[j] # Ready => last < sent[j] /\ sent[j] <= top
    /\ \A j \in 1..Len(sent) : sent[j] # Ready =>
          \A i \in 1..Len(chan) : chan[i] < sent[j]
    /\ \A i, j \in 1..Len(sent) : (i < j /\ sent[j] # Ready) => sent[i] < sent[j]

OrderInv == Ordered(Feed!LastTold, channel, wire, committed)

IInv ==
    /\ TypeOK
    /\ ExitsForAReason
    /\ DestroyStopsWatches
    /\ LoopInv
    /\ ConnectionInv
    /\ OrderInv

--------------------------------------------------------------------------------
(* The listener starts with nothing committed, sent, told or registered.       *)
LEMMA InitIInv == Init => IInv
<1> SUFFICES ASSUME Init PROVE IInv
  OBVIOUS
<1> USE BoundsAssumption DEF BoundsAssumption, Init
<1>1. TypeOK
  <2>1. wire \in Seq(Nat) /\ told \in Seq(Nat)
    OBVIOUS
  <2>2. channel \in Seq(Nat \ {Ready}) /\ Len(channel) <= NotifySize
    OBVIOUS
  <2>3. watch \in [Watches -> {"new", "live", "stopped"}]
    OBVIOUS
  <2>4. cancelled \in BOOLEAN /\ drained \in BOOLEAN
    BY Zenon
  <2>5. attempt \in 0..MaxAttempts /\ inARow \in 0..MaxAttempts /\ committed \in Nat
    OBVIOUS
  <2>6. registered \subseteq Watches /\ late \subseteq Watches /\ acquired \subseteq Statements
    OBVIOUS
  <2>7. /\ session \in {"none", "asked", "listening", "idle"}
        /\ destroy \in {"idle", "join", "stop", "close", "wait", "done"}
        /\ lpc \in {"try", "connect", "listen", "wait", "drain", "interrupted", "backoff", "exited"}
    OBVIOUS
  <2> HIDE DEF Init
  <2> QED
    BY <2>1, <2>2, <2>3, <2>4, <2>5, <2>6, <2>7, Zenon DEF TypeOK
<1>2. ExitsForAReason /\ DestroyStopsWatches /\ LoopInv
  BY DEF ExitsForAReason, DestroyStopsWatches, LoopInv, StoppedAll
<1>3. ConnectionInv
  BY DEF ConnectionInv
<1>4. OrderInv
  BY DEF OrderInv, Ordered, Feed!LastTold
<1> QED
  BY <1>1, <1>2, <1>3, <1>4 DEF IInv

(* A sequence without its head: the rest moves down by one.                    *)
LEMMA TailFacts ==
    ASSUME NEW S, NEW s \in Seq(S), s # <<>>
    PROVE  /\ Tail(s) \in Seq(S)
           /\ Len(s) \in Nat /\ Len(s) > 0
           /\ Len(Tail(s)) = Len(s) - 1
           /\ Head(s) = s[1] /\ Head(s) \in S
           /\ \A i \in 1..Len(Tail(s)) : i + 1 \in 1..Len(s) /\ Tail(s)[i] = s[i + 1]
  OBVIOUS

(* A sequence with one element more.                                           *)
LEMMA AppendFacts ==
    ASSUME NEW S, NEW s \in Seq(S), NEW e \in S
    PROVE  /\ Append(s, e) \in Seq(S)
           /\ Append(s, e) # <<>>
           /\ Len(s) \in Nat /\ Len(Append(s, e)) = Len(s) + 1
           /\ Append(s, e)[Len(s) + 1] = e
           /\ \A i \in 1..Len(Append(s, e)) :
                 \/ i \in 1..Len(s) /\ Append(s, e)[i] = s[i]
                 \/ i = Len(s) + 1  /\ Append(s, e)[i] = e
           /\ \A i \in 1..Len(s) : Append(s, e)[i] = s[i]
  OBVIOUS

(* The elements of a longer, and of a shorter, sequence.                       *)
LEMMA RangeOfAppend ==
    ASSUME NEW S, NEW s \in Seq(S), NEW e \in S
    PROVE  Range(Append(s, e)) = Range(s) \cup {e}
<1>1. /\ DOMAIN s = 1..Len(s) /\ Len(s) \in Nat
      /\ DOMAIN Append(s, e) = 1..(Len(s) + 1)
      /\ Append(s, e)[Len(s) + 1] = e
      /\ \A i \in 1..Len(s) : Append(s, e)[i] = s[i]
  OBVIOUS
<1> QED
  BY <1>1 DEF Range

LEMMA RangeOfTail ==
    ASSUME NEW S, NEW s \in Seq(S), s # <<>>, NEW n \in Range(s), n \notin Range(Tail(s))
    PROVE  n = Head(s) /\ n \in S
<1>1. PICK i \in 1..Len(s) : n = s[i]
  BY DEF Range
<1>2. CASE i = 1
  BY <1>1, <1>2
<1>3. CASE i # 1
  <2>1. i - 1 \in 1..Len(Tail(s)) /\ Tail(s)[i - 1] = s[i]
    BY <1>3
  <2>2. i - 1 \in DOMAIN Tail(s)
    BY <2>1
  <2> QED
    BY <1>1, <2>1, <2>2 DEF Range
<1> QED
  BY <1>2, <1>3

(* What Push, Disconnect and a read from the wire leave behind.                *)
LEMMA PushFacts ==
    ASSUME TypeOK, NEW n \in Nat, n # Ready, Push(n)
    PROVE  /\ channel' \in Seq(Nat \ {Ready})
           /\ Len(channel') <= NotifySize
           /\ \/ Room /\ channel' = Append(channel, n)
              \/ ~Room /\ channel' = channel
<1> USE BoundsAssumption DEF BoundsAssumption, TypeOK, Ready
<1>1. CASE Room
  <2>1. channel' = Append(channel, n) /\ n \in Nat \ {Ready}
    BY <1>1 DEF Push
  <2>2. channel' \in Seq(Nat \ {Ready}) /\ Len(channel') = Len(channel) + 1 /\ Len(channel) \in Nat
    BY <2>1, AppendFacts
  <2> QED
    BY <1>1, <2>1, <2>2 DEF Room
<1>2. CASE ~Room
  BY <1>2 DEF Push
<1> QED
  BY <1>1, <1>2

LEMMA DisconnectFacts ==
    ASSUME Disconnect
    PROVE  /\ session' = "none"
           /\ wire' = <<>> /\ wire' \in Seq(Nat)
           /\ channel' = <<>> /\ channel' \in Seq(Nat \ {Ready}) /\ Len(channel') = 0
           /\ ~drained' /\ drained' \in BOOLEAN
<1>1. wire' = <<>> /\ channel' = <<>> /\ session' = "none"
  BY DEF Disconnect
<1>2. wire' \in Seq(Nat) /\ channel' \in Seq(Nat \ {Ready}) /\ Len(channel') = 0
  BY <1>1
<1>3. ~drained' /\ drained' \in BOOLEAN
  BY Zenon DEF Disconnect
<1> QED
  BY <1>1, <1>2, <1>3

(* Each step keeps each part of the invariant.                                 *)
LEMMA NextTypeOK == IInv /\ [Next]_vars => TypeOK'
<1> SUFFICES ASSUME IInv, [Next]_vars PROVE TypeOK'
  OBVIOUS
<1> USE BoundsAssumption
    DEF BoundsAssumption, TypeOK, StoppedAll, LoopInv, ConnectionInv, Ready, IInv, serverVars,
     loopVars, watchVars, destroyVars
<1>1. CASE Commit
  BY <1>1 DEF Commit
<1>2. CASE CommitListen
  BY <1>2 DEF CommitListen
<1>3. CASE SendReady
  BY <1>3 DEF SendReady
<1>4. CASE Try
  BY <1>4 DEF Try
<1>5. CASE Connect
  BY <1>5 DEF Connect
<1>6. CASE ReadAnswer
  <2>1. wire' \in Seq(Nat) /\ Head(wire) \in Nat
    BY <1>6, TailFacts DEF ReadAnswer
  <2>2. channel' \in Seq(Nat \ {Ready}) /\ Len(channel') <= NotifySize
    BY <1>6, PushFacts, <2>1 DEF ReadAnswer
  <2>3. lpc' \in {"listen", "wait", "interrupted"} /\ inARow' \in 0..MaxAttempts
    BY <1>6 DEF ReadAnswer, NextWait
  <2>4. UNCHANGED <<committed, session, cancelled, attempt, told, watch, registered, destroy,
                    acquired, drained, late>>
    BY <1>6 DEF ReadAnswer
  <2> QED
    BY <2>1, <2>2, <2>3, <2>4
<1>7. CASE Read
  <2>1. wire' \in Seq(Nat) /\ Head(wire) \in Nat /\ Head(wire) = wire[1] /\ Len(wire) > 0
    BY <1>7, TailFacts DEF Read
  <2>2. Head(wire) # Ready
    BY <1>7, <2>1 DEF Read
  <2>3. channel' \in Seq(Nat \ {Ready}) /\ Len(channel') <= NotifySize
    BY <1>7, PushFacts, <2>1, <2>2 DEF Read
  <2>4. lpc' = "drain" /\ UNCHANGED <<committed, session, cancelled, attempt, told, watch,
                                     registered, destroy, acquired, drained, inARow, late>>
    BY <1>7 DEF Read
  <2> QED
    BY <2>1, <2>3, <2>4
<1>8. CASE Drain
  <2>1. /\ channel' \in Seq(Nat \ {Ready}) /\ Head(channel) \in Nat
        /\ Len(channel') = Len(channel) - 1 /\ Len(channel) \in Nat
    BY <1>8, TailFacts DEF Drain
  <2>2. told' \in Seq(Nat) /\ registered' \subseteq Watches
    <3>1. CASE UNCHANGED <<told, registered>>
      BY <3>1
    <3>2. CASE broadcast(Head(channel))
      <4>1. told' = Append(told, Head(channel))
        BY <3>2 DEF broadcast
      <4>2. told' \in Seq(Nat)
        BY <2>1, <4>1, AppendFacts
      <4>3. registered' \subseteq Watches
        BY <3>2 DEF broadcast
      <4> QED
        BY <4>2, <4>3
    <3> QED
      BY <1>8, <3>1, <3>2 DEF Drain
  <2>3. UNCHANGED <<committed, session, wire, cancelled, lpc, attempt, watch, destroy, acquired,
                    drained, inARow, late>>
    BY <1>8 DEF Drain
  <2> QED
    BY <2>1, <2>2, <2>3
<1>9. CASE EndDrain
  BY <1>9 DEF EndDrain, NextWait
<1>10. CASE Interrupt
  <2>1. Disconnect
    BY <1>10 DEF Interrupt
  <2>2. /\ session' = "none" /\ wire' \in Seq(Nat) /\ channel' \in Seq(Nat \ {Ready})
        /\ Len(channel') <= NotifySize
    BY <2>1, DisconnectFacts
  <2>3. drained' \in BOOLEAN
    BY <2>1, DisconnectFacts, Zenon
  <2>4. lpc' \in {"exited", "backoff"} /\ inARow' \in 0..MaxAttempts
    BY <1>10 DEF Interrupt, CountFailure
  <2>5. UNCHANGED <<committed, cancelled, attempt, told, watch, registered, destroy, acquired,
                    late>>
    BY <1>10 DEF Interrupt
  <2> QED
    BY <2>2, <2>3, <2>4, <2>5
<1>11. CASE Backoff
  BY <1>11 DEF Backoff
<1>12. CASE Fail
  <2>1. Disconnect
    BY <1>12 DEF Fail
  <2>2. /\ session' = "none" /\ wire' \in Seq(Nat) /\ channel' \in Seq(Nat \ {Ready})
        /\ Len(channel') <= NotifySize
    BY <2>1, DisconnectFacts
  <2>3. drained' \in BOOLEAN
    BY <2>1, DisconnectFacts, Zenon
  <2>4. lpc' \in {"exited", "backoff"} /\ inARow' \in 0..MaxAttempts
    BY <1>12 DEF Fail, CountFailure
  <2>5. UNCHANGED <<committed, cancelled, attempt, told, watch, registered, destroy, acquired,
                    late>>
    BY <1>12 DEF Fail
  <2> QED
    BY <2>2, <2>3, <2>4, <2>5
<1>13. CASE Cancel
  BY <1>13 DEF Cancel
<1>14. CASE Join
  BY <1>14 DEF Join
<1>15. CASE StopAll
  BY <1>15 DEF StopAll
<1>16. CASE CloseDB \/ PoolDrained
  BY <1>16 DEF CloseDB, PoolDrained
<1>17. ASSUME NEW w \in Watches, Watch(w) PROVE TypeOK'
  BY <1>17 DEF Watch
<1>18. ASSUME NEW w \in Watches, Stop(w) PROVE TypeOK'
  BY <1>18 DEF Stop
<1>19. ASSUME NEW s \in Statements, Acquire(s) \/ Release(s)
       PROVE  TypeOK'
  BY <1>19 DEF Acquire, Release
<1>20. CASE UNCHANGED vars
  BY <1>20 DEF vars
<1> QED
  BY <1>1, <1>2, <1>3, <1>4, <1>5, <1>6, <1>7, <1>8, <1>9, <1>10, <1>11, <1>12, <1>13, <1>14,
       <1>15, <1>16, <1>17, <1>18, <1>19, <1>20
      DEF Next, Listener, Destroyer, Finished

LEMMA NextLoop == IInv /\ [Next]_vars => (LoopInv /\ ExitsForAReason /\ DestroyStopsWatches)'
<1> SUFFICES ASSUME IInv, [Next]_vars PROVE (LoopInv /\ ExitsForAReason /\ DestroyStopsWatches)'
  OBVIOUS
<1> USE BoundsAssumption
    DEF BoundsAssumption, TypeOK, StoppedAll, LoopInv, ExitsForAReason, DestroyStopsWatches, IInv,
     serverVars, loopVars, watchVars, destroyVars
<1>1. CASE Commit
  BY <1>1 DEF Commit
<1>2. CASE CommitListen
  BY <1>2 DEF CommitListen
<1>3. CASE SendReady
  BY <1>3 DEF SendReady
<1>4. CASE Try
  BY <1>4 DEF Try
<1>5. CASE Connect
  BY <1>5 DEF Connect
<1>6. CASE ReadAnswer
  BY <1>6 DEF ReadAnswer, NextWait, Push, Room
<1>7. CASE Read
  BY <1>7 DEF Read, Push, Room
<1>8. CASE Drain
  BY <1>8 DEF Drain, broadcast
<1>9. CASE EndDrain
  BY <1>9 DEF EndDrain, NextWait
<1>10. CASE Interrupt
  BY <1>10 DEF Interrupt, Disconnect
<1>11. CASE Backoff
  BY <1>11 DEF Backoff
<1>12. CASE Fail
  BY <1>12 DEF Fail, Disconnect, CountFailure
<1>13. CASE Cancel
  BY <1>13 DEF Cancel
<1>14. CASE Join
  BY <1>14 DEF Join
<1>15. CASE StopAll
  BY <1>15 DEF StopAll
<1>16. CASE CloseDB \/ PoolDrained
  BY <1>16 DEF CloseDB, PoolDrained
<1>17. ASSUME NEW w \in Watches, Watch(w) PROVE (LoopInv /\ ExitsForAReason /\ DestroyStopsWatches)'
  BY <1>17 DEF Watch
<1>18. ASSUME NEW w \in Watches, Stop(w) PROVE (LoopInv /\ ExitsForAReason /\ DestroyStopsWatches)'
  BY <1>18 DEF Stop
<1>19. ASSUME NEW s \in Statements, Acquire(s) \/ Release(s)
       PROVE  (LoopInv /\ ExitsForAReason /\ DestroyStopsWatches)'
  BY <1>19 DEF Acquire, Release
<1>20. CASE UNCHANGED vars
  BY <1>20 DEF vars
<1> QED
  BY <1>1, <1>2, <1>3, <1>4, <1>5, <1>6, <1>7, <1>8, <1>9, <1>10, <1>11, <1>12, <1>13, <1>14,
       <1>15, <1>16, <1>17, <1>18, <1>19, <1>20
      DEF Next, Listener, Destroyer, Finished

LEMMA NextConnection == IInv /\ [Next]_vars => ConnectionInv'
<1> SUFFICES ASSUME IInv, [Next]_vars PROVE ConnectionInv'
  OBVIOUS
<1> USE BoundsAssumption
    DEF BoundsAssumption, TypeOK, StoppedAll, LoopInv, ConnectionInv, Ready, IInv, serverVars,
     loopVars, watchVars, destroyVars
<1>1. CASE Commit
  BY <1>1 DEF Commit
<1>2. CASE CommitListen
  BY <1>2 DEF CommitListen
<1>3. CASE SendReady
  BY <1>3 DEF SendReady
<1>4. CASE Try
  BY <1>4 DEF Try
<1>5. CASE Connect
  BY <1>5 DEF Connect
<1>6. CASE ReadAnswer
  BY <1>6 DEF ReadAnswer, NextWait, Push, Room
<1>7. CASE Read
  BY <1>7 DEF Read, Push, Room
<1>8. CASE Drain
  BY <1>8 DEF Drain, broadcast
<1>9. CASE EndDrain
  BY <1>9 DEF EndDrain, NextWait
<1>10. CASE Interrupt
  BY <1>10 DEF Interrupt, Disconnect
<1>11. CASE Backoff
  BY <1>11 DEF Backoff
<1>12. CASE Fail
  BY <1>12 DEF Fail, Disconnect, CountFailure
<1>13. CASE Cancel
  BY <1>13 DEF Cancel
<1>14. CASE Join
  BY <1>14 DEF Join
<1>15. CASE StopAll
  BY <1>15 DEF StopAll
<1>16. CASE CloseDB \/ PoolDrained
  BY <1>16 DEF CloseDB, PoolDrained
<1>17. ASSUME NEW w \in Watches, Watch(w) PROVE ConnectionInv'
  BY <1>17 DEF Watch
<1>18. ASSUME NEW w \in Watches, Stop(w) PROVE ConnectionInv'
  BY <1>18 DEF Stop
<1>19. ASSUME NEW s \in Statements, Acquire(s) \/ Release(s)
       PROVE  ConnectionInv'
  BY <1>19 DEF Acquire, Release
<1>20. CASE UNCHANGED vars
  BY <1>20 DEF vars
<1> QED
  BY <1>1, <1>2, <1>3, <1>4, <1>5, <1>6, <1>7, <1>8, <1>9, <1>10, <1>11, <1>12, <1>13, <1>14,
       <1>15, <1>16, <1>17, <1>18, <1>19, <1>20
      DEF Next, Listener, Destroyer, Finished

--------------------------------------------------------------------------------
(* What a commit, a read, a drain and the end of a connection do to the order. *)

(* A new number is greater than all others, wherever it goes or does not go.   *)
LEMMA OrderedCommit ==
    ASSUME NEW l \in Nat, NEW c \in Seq(Nat), NEW w \in Seq(Nat), NEW n \in Nat,
           Ordered(l, c, w, n)
    PROVE  /\ Ordered(l, c, w, n + 1)
           /\ Ordered(l, c, Append(w, n + 1), n + 1)
<1>1. Ordered(l, c, w, n + 1)
  BY DEF Ordered, Ready
<1> DEFINE v == Append(w, n + 1)
<1>2. /\ v \in Seq(Nat) /\ Len(w) \in Nat /\ Len(v) = Len(w) + 1
      /\ \A j \in 1..Len(v) : \/ j \in 1..Len(w) /\ v[j] = w[j]
                              \/ j = Len(w) + 1 /\ v[j] = n + 1
  BY AppendFacts
<1> HIDE DEF v
<1>3. ASSUME NEW j \in 1..Len(w) PROVE w[j] < n + 1
  <2>1. CASE w[j] = Ready
    BY <2>1 DEF Ready
  <2>2. CASE w[j] # Ready
    BY <2>2 DEF Ordered
  <2> QED
    BY <2>1, <2>2
<1>4. ASSUME NEW j \in 1..Len(v), v[j] # Ready PROVE l < v[j] /\ v[j] <= n + 1
  <2>1. CASE j \in 1..Len(w) /\ v[j] = w[j]
    BY <1>4, <2>1 DEF Ordered
  <2>2. CASE v[j] = n + 1
    BY <2>2 DEF Ordered
  <2> QED
    BY <1>2, <2>1, <2>2
<1>5. ASSUME NEW j \in 1..Len(v), v[j] # Ready, NEW i \in 1..Len(c) PROVE c[i] < v[j]
  <2>1. c[i] < n + 1
    BY DEF Ordered
  <2> QED
    BY <1>2, <1>5, <2>1 DEF Ordered
<1>6. ASSUME NEW j \in 1..Len(v), v[j] # Ready, NEW i \in 1..Len(v), i < j PROVE v[i] < v[j]
  <2>1. i \in 1..Len(w) /\ v[i] = w[i]
    <3>1. i # Len(w) + 1
      BY <1>2, <1>6
    <3> QED
      BY <1>2, <3>1
  <2>2. CASE j \in 1..Len(w) /\ v[j] = w[j]
    BY <1>6, <2>1, <2>2 DEF Ordered
  <2>3. CASE v[j] = n + 1
    BY <1>3, <2>1, <2>3
  <2> QED
    BY <1>2, <2>2, <2>3
<1>7. Ordered(l, c, v, n + 1)
  BY <1>1, <1>4, <1>5, <1>6 DEF Ordered
<1> QED
  BY <1>1, <1>7 DEF v

(* The end of the answer to LISTEN is no notification.                         *)
LEMMA OrderedReady ==
    ASSUME NEW l \in Nat, NEW c \in Seq(Nat), NEW w \in Seq(Nat), NEW n \in Nat,
           Ordered(l, c, w, n)
    PROVE  Ordered(l, c, Append(w, Ready), n)
<1> DEFINE v == Append(w, Ready)
<1>1. /\ v \in Seq(Nat)
      /\ \A j \in 1..Len(v) : v[j] # Ready => j \in 1..Len(w) /\ v[j] = w[j]
      /\ \A j \in 1..Len(w) : v[j] = w[j]
  BY AppendFacts DEF Ready
<1> HIDE DEF v
<1>2. ASSUME NEW j \in 1..Len(v), v[j] # Ready, NEW i \in 1..Len(v), i < j
      PROVE  v[i] < v[j]
  <2>1. j \in 1..Len(w) /\ i \in 1..Len(w)
    BY <1>1, <1>2
  <2> QED
    BY <1>1, <1>2, <2>1 DEF Ordered
<1>3. ASSUME NEW j \in 1..Len(v), v[j] # Ready
      PROVE  l < v[j] /\ v[j] <= n /\ \A i \in 1..Len(c) : c[i] < v[j]
  BY <1>1, <1>3 DEF Ordered
<1>4. Ordered(l, c, v, n)
  BY <1>2, <1>3 DEF Ordered
<1> QED
  BY <1>4 DEF v

(* A notification read from the wire is the next after those in the channel.   *)
LEMMA OrderedRead ==
    ASSUME NEW l \in Nat, NEW c \in Seq(Nat), NEW w \in Seq(Nat), NEW n \in Nat,
           w # <<>>, Ordered(l, c, w, n)
    PROVE  /\ Ordered(l, c, Tail(w), n)
           /\ Head(w) # Ready => Ordered(l, Append(c, Head(w)), Tail(w), n)
<1> DEFINE v == Tail(w)
<1> DEFINE d == Append(c, Head(w))
<1>1. /\ v \in Seq(Nat)
      /\ \A j \in 1..Len(v) : j + 1 \in 1..Len(w) /\ v[j] = w[j + 1]
  BY TailFacts
<1>2. Len(w) > 0 /\ Head(w) = w[1] /\ w[1] \in Nat
  OBVIOUS
<1>3. /\ d \in Seq(Nat) /\ Len(c) \in Nat /\ Len(d) = Len(c) + 1
      /\ \A j \in 1..Len(d) : \/ j \in 1..Len(c) /\ d[j] = c[j]
                              \/ j = Len(c) + 1 /\ d[j] = w[1]
  BY <1>2, AppendFacts
<1> HIDE DEF v, d
<1>4. ASSUME NEW j \in 1..Len(v), v[j] # Ready
      PROVE  /\ l < v[j] /\ v[j] <= n
             /\ \A i \in 1..Len(c) : c[i] < v[j]
             /\ \A i \in 1..Len(v) : i < j => v[i] < v[j]
             /\ w[1] < v[j]
  <2>1. l < v[j] /\ v[j] <= n /\ \A i \in 1..Len(c) : c[i] < v[j]
    BY <1>1, <1>4 DEF Ordered
  <2>2. ASSUME NEW i \in 1..Len(w), i < j + 1 PROVE w[i] < v[j]
    BY <1>1, <1>4, <2>2 DEF Ordered
  <2>3. ASSUME NEW i \in 1..Len(v), i < j PROVE v[i] < v[j]
    BY <1>1, <2>2, <2>3
  <2>4. 1 < j + 1
    OBVIOUS
  <2> QED
    BY <1>2, <2>1, <2>2, <2>3, <2>4
<1>5. Ordered(l, c, v, n)
  BY <1>4 DEF Ordered
<1>6. ASSUME w[1] # Ready PROVE Ordered(l, d, v, n)
  <2>1. l < w[1] /\ w[1] <= n
    BY <1>2, <1>6 DEF Ordered
  <2>2. ASSUME NEW i \in 1..Len(c) PROVE c[i] < w[1]
    <3>1. 1 \in 1..Len(w)
      BY <1>2
    <3> QED
      BY <1>6, <3>1 DEF Ordered
  <2>3. ASSUME NEW i \in 1..Len(d) PROVE l < d[i] /\ d[i] <= n
    BY <1>3, <2>1 DEF Ordered
  <2>4. ASSUME NEW i \in 1..Len(d), NEW j \in 1..Len(d), i < j PROVE d[i] < d[j]
    <3>1. i \in 1..Len(c) /\ d[i] = c[i]
      <4>1. i # Len(c) + 1
        BY <1>3, <2>4
      <4> QED
        BY <1>3, <4>1
    <3>2. CASE j \in 1..Len(c) /\ d[j] = c[j]
      BY <2>4, <3>1, <3>2 DEF Ordered
    <3>3. CASE d[j] = w[1]
      BY <2>2, <3>1, <3>3
    <3> QED
      BY <1>3, <3>2, <3>3
  <2>5. ASSUME NEW j \in 1..Len(v), v[j] # Ready, NEW i \in 1..Len(d) PROVE d[i] < v[j]
    BY <1>3, <1>4, <2>5
  <2> QED
    BY <1>4, <2>3, <2>4, <2>5 DEF Ordered
<1> QED
  BY <1>2, <1>5, <1>6 DEF v, d

(* The head of the channel is the next after those told.                       *)
LEMMA OrderedDrain ==
    ASSUME NEW l \in Nat, NEW c \in Seq(Nat), NEW w \in Seq(Nat), NEW n \in Nat,
           c # <<>>, Ordered(l, c, w, n)
    PROVE  /\ Ordered(l, Tail(c), w, n)
           /\ Ordered(Head(c), Tail(c), w, n)
           /\ l < Head(c) /\ Head(c) <= n
<1> DEFINE d == Tail(c)
<1>1. /\ d \in Seq(Nat)
      /\ \A j \in 1..Len(d) : j + 1 \in 1..Len(c) /\ d[j] = c[j + 1]
  BY TailFacts
<1>2. Len(c) > 0 /\ Head(c) = c[1] /\ c[1] \in Nat
  OBVIOUS
<1> HIDE DEF d
<1>3. ASSUME NEW i \in 1..Len(d) PROVE l < d[i] /\ d[i] <= n /\ c[1] < d[i]
  <2>1. l < c[i + 1] /\ c[i + 1] <= n
    BY <1>1 DEF Ordered
  <2>2. 1 \in 1..Len(c) /\ i + 1 \in 1..Len(c) /\ 1 < i + 1
    BY <1>1, <1>2
  <2>3. c[1] < c[i + 1]
    BY <2>2 DEF Ordered
  <2> QED
    BY <1>1, <2>1, <2>3
<1>4. ASSUME NEW i \in 1..Len(d), NEW j \in 1..Len(d), i < j PROVE d[i] < d[j]
  BY <1>1, <1>4 DEF Ordered
<1>5. l < c[1] /\ c[1] <= n
  BY <1>2 DEF Ordered
<1>6. ASSUME NEW j \in 1..Len(w), w[j] # Ready PROVE c[1] < w[j]
  BY <1>2, <1>6 DEF Ordered
<1>7. ASSUME NEW j \in 1..Len(w), w[j] # Ready, NEW i \in 1..Len(d) PROVE d[i] < w[j]
  BY <1>1, <1>7 DEF Ordered
<1>8. Ordered(l, d, w, n) /\ Ordered(c[1], d, w, n)
  BY <1>3, <1>4, <1>5, <1>6, <1>7 DEF Ordered
<1> QED
  BY <1>2, <1>5, <1>8 DEF d

LEMMA OrderedLost ==
    ASSUME NEW l \in Nat, NEW n \in Nat, l <= n
    PROVE  Ordered(l, <<>>, <<>>, n)
  BY DEF Ordered

LEMMA NextOrder == IInv /\ [Next]_vars => OrderInv'
<1> SUFFICES ASSUME IInv, [Next]_vars PROVE OrderInv'
  OBVIOUS
<1> DEFINE last == Feed!LastTold
<1>1. /\ Ordered(last, channel, wire, committed)
      /\ committed \in Nat /\ wire \in Seq(Nat) /\ channel \in Seq(Nat)
      /\ told \in Seq(Nat) /\ last \in Nat /\ last <= committed
  <2>1. /\ committed \in Nat /\ wire \in Seq(Nat) /\ channel \in Seq(Nat \ {Ready})
        /\ told \in Seq(Nat)
    BY DEF IInv, TypeOK
  <2>2. Ordered(last, channel, wire, committed)
    BY DEF IInv, OrderInv
  <2>3. last \in Nat
    BY <2>1 DEF Feed!LastTold
  <2> QED
    BY <2>1, <2>2, <2>3 DEF Ordered
<1>2. told' = told => last' = last
  BY DEF Feed!LastTold
<1> HIDE DEF last
<1>3. SUFFICES Ordered(last', channel', wire', committed')
  BY DEF OrderInv, last
<1>4. CASE UNCHANGED <<told, channel, wire, committed>>
  BY <1>1, <1>2, <1>4
<1>5. CASE Commit
  <2>1. UNCHANGED <<told, channel>> /\ committed' = committed + 1
    BY <1>5 DEF Commit, loopVars
  <2>2. wire' = wire \/ wire' = Append(wire, committed + 1)
    BY <1>5 DEF Commit
  <2> QED
    BY <1>1, <1>2, <2>1, <2>2, OrderedCommit
<1>6. CASE SendReady
  BY <1>1, <1>2, <1>6, OrderedReady DEF SendReady, loopVars
<1>7. CASE ReadAnswer \/ Read
  <2>1. UNCHANGED <<told, committed>> /\ wire # <<>> /\ wire' = Tail(wire)
    BY <1>7 DEF ReadAnswer, Read
  <2>2. CASE UNCHANGED channel
    BY <1>1, <1>2, <2>1, <2>2, OrderedRead
  <2>3. CASE Head(wire) # Ready /\ channel' = Append(channel, Head(wire))
    BY <1>1, <1>2, <2>1, <2>3, OrderedRead
  <2>4. Read => Head(wire) # Ready
    BY <1>1, <2>1, TailFacts DEF IInv, ConnectionInv, Read
  <2> QED
    BY <1>7, <2>2, <2>3, <2>4 DEF ReadAnswer, Read, Push
<1>8. CASE Drain
  <2>1. UNCHANGED <<wire, committed>> /\ channel # <<>> /\ channel' = Tail(channel)
    BY <1>8 DEF Drain, serverVars
  <2>2. CASE UNCHANGED told
    BY <1>1, <1>2, <2>1, <2>2, OrderedDrain
  <2>3. CASE told' = Append(told, Head(channel))
    <3>1. Head(channel) \in Nat
      BY <1>1, <2>1, TailFacts
    <3>2. last' = Head(channel)
      BY <1>1, <2>3, <3>1, AppendFacts DEF last, Feed!LastTold
    <3> QED
      BY <1>1, <2>1, <3>2, OrderedDrain
  <2> QED
    BY <1>8, <2>2, <2>3 DEF Drain, broadcast
<1>9. CASE Interrupt \/ Fail
  <2>1. Disconnect /\ UNCHANGED <<told, committed>>
    BY <1>9 DEF Interrupt, Fail
  <2> QED
    BY <1>1, <1>2, <2>1, DisconnectFacts, OrderedLost
<1> QED
  BY <1>4, <1>5, <1>6, <1>7, <1>8, <1>9
     DEF Next, Listener, Destroyer, Finished, CommitListen, Try, Connect, EndDrain, Backoff,
         Watch, Stop, Cancel, Join, StopAll, CloseDB, PoolDrained, Acquire, Release, vars,
         serverVars, loopVars, watchVars, destroyVars

LEMMA NextIInv == IInv /\ [Next]_vars => IInv'
  BY NextTypeOK, NextLoop, NextConnection, NextOrder DEF IInv

LEMMA Invariance == Spec => []IInv
  BY InitIInv, NextIInv, PTL DEF Spec

--------------------------------------------------------------------------------
(* Every variable keeps its type, and the channel of notifications its         *)
(* capacity.                                                                   *)
THEOREM TypeCorrect == Spec => []TypeOK
<1>1. IInv => TypeOK
  BY DEF IInv
<1> QED
  BY <1>1, Invariance, PTL

(* listenLoop returns when Destroy has cancelled it, or after maxAttempts      *)
(* failures, and for no other reason (storage_postgres.go:143).                *)
THEOREM ExitsJustified == Spec => []ExitsForAReason
<1>1. IInv => ExitsForAReason
  BY DEF IInv
<1> QED
  BY <1>1, Invariance, PTL

(* A watch that is open can be found in s.watchers, and Destroy leaves none    *)
(* open but those that register too late (storage_postgres.go:254).            *)
THEOREM WatchesStopped == Spec => []DestroyStopsWatches
<1>1. IInv => DestroyStopsWatches
  BY DEF IInv
<1> QED
  BY <1>1, Invariance, PTL

(* A notification that the server has sent is lost with its connection, or     *)
(* because the answer to LISTEN brought more than the channel holds; one read  *)
(* after the first drain never is (storage_postgres.go:181 and 209).           *)
THEOREM LossesExplained == Spec => LossExplained
<1> DEFINE Explained ==
      \A n \in UnderWay \ UnderWay' :
          \/ n \in Range(told') \cup Malformed
          \/ session' = "none"
          \/ ~Room /\ ~drained
<1>1. ASSUME IInv, [Next]_vars PROVE Explained
  <2> SUFFICES ASSUME NEW n \in UnderWay, n \notin UnderWay'
               PROVE  \/ n \in Range(told') \cup Malformed
                      \/ session' = "none"
                      \/ ~Room /\ ~drained
    OBVIOUS
  <2>1. /\ n # Ready
        /\ n \in Range(wire) \/ n \in Range(channel)
        /\ n \notin Range(wire') /\ n \notin Range(channel')
    BY DEF UnderWay, Ready
  <2>2. wire \in Seq(Nat) /\ channel \in Seq(Nat) /\ told \in Seq(Nat) /\ committed \in Nat
    <3>1. /\ wire \in Seq(Nat) /\ channel \in Seq(Nat \ {Ready}) /\ told \in Seq(Nat)
          /\ committed \in Nat
      BY <1>1 DEF IInv, TypeOK
    <3> QED
      BY <3>1
  <2>3. CASE UNCHANGED <<wire, channel>>
    BY <2>1, <2>3
  <2>4. CASE Commit \/ SendReady
    <3>1. UNCHANGED channel /\ (wire' = wire \/ wire' = Append(wire, committed + 1)
                                             \/ wire' = Append(wire, Ready))
      BY <2>4 DEF Commit, SendReady, loopVars
    <3>2. Range(wire) \subseteq Range(wire')
      <4>1. ASSUME NEW e \in Nat PROVE Range(Append(wire, e)) = Range(wire) \cup {e}
        BY <2>2, RangeOfAppend
      <4>2. committed + 1 \in Nat /\ Ready \in Nat
        BY <2>2 DEF Ready
      <4> QED
        BY <3>1, <4>1, <4>2
    <3> QED
      BY <2>1, <3>1, <3>2
  <2>5. CASE ReadAnswer \/ Read
    <3>1. wire # <<>> /\ wire' = Tail(wire)
      BY <2>5 DEF ReadAnswer, Read
    <3>2. CASE n \in Range(channel)
      <4>1. channel' = channel \/ channel' = Append(channel, Head(wire))
        BY <2>5 DEF ReadAnswer, Read, Push
      <4>2. Head(wire) \in Nat
        BY <2>2, <3>1, TailFacts
      <4>3. Range(Append(channel, Head(wire))) = Range(channel) \cup {Head(wire)}
        BY <2>2, <4>2, RangeOfAppend
      <4> QED
        BY <2>1, <3>2, <4>1, <4>3
    <3>3. CASE n \in Range(wire)
      <4>1. n = Head(wire) /\ n \in Nat
        BY <2>1, <2>2, <3>1, <3>3, RangeOfTail
      <4>2. channel' = IF Room THEN Append(channel, n) ELSE channel
        BY <2>1, <2>5, <4>1 DEF ReadAnswer, Read, Push
      <4>3. ~Room
        BY <2>1, <2>2, <4>1, <4>2, RangeOfAppend
      <4>4. ~drained
        <5>1. drained => lpc # "listen" /\ (lpc = "wait" => channel = <<>>)
          BY <1>1 DEF IInv, ConnectionInv
        <5>2. channel # <<>>
          BY <4>3, BoundsAssumption DEF Room, BoundsAssumption
        <5> QED
          BY <2>5, <5>1, <5>2 DEF ReadAnswer, Read
      <4> QED
        BY <4>3, <4>4
    <3> QED
      BY <2>1, <3>2, <3>3
  <2>6. CASE Drain
    <3>1. UNCHANGED wire /\ channel # <<>> /\ channel' = Tail(channel)
      BY <2>6 DEF Drain, serverVars
    <3>2. n = Head(channel) /\ n \in Nat
      BY <2>1, <2>2, <3>1, RangeOfTail
    <3>3. n \in Malformed \/ told' = Append(told, n)
      BY <2>6, <3>2 DEF Drain, broadcast
    <3>4. Range(Append(told, n)) = Range(told) \cup {n}
      BY <2>2, <3>2, RangeOfAppend
    <3> QED
      BY <3>3, <3>4
  <2>7. CASE Interrupt \/ Fail
    BY <2>7 DEF Interrupt, Fail, Disconnect
  <2> QED
    BY <1>1, <2>3, <2>4, <2>5, <2>6, <2>7
       DEF Next, Listener, Destroyer, Finished, CommitListen, Try, Connect, EndDrain, Backoff,
           Watch, Stop, Cancel, Join, StopAll, CloseDB, PoolDrained, Acquire, Release, vars,
           serverVars, loopVars, watchVars, destroyVars
<1>2. IInv /\ [Next]_vars => [Explained]_vars
  BY <1>1
<1> QED
  BY <1>2, Invariance, PTL DEF Spec, LossExplained

(* Over any number of connections, the listener implements NotificationFeed:   *)
(* what it broadcasts comes in the order of the commits, nothing twice and     *)
(* nothing once Destroy has stopped the watchers.                              *)
THEOREM FeedImplemented == Spec => ImplementsFeed
<1>1. Init => Feed!Init
  BY DEF Init, StoppedAll, Feed!Init
<1>2. ASSUME IInv, [Next]_vars PROVE [Feed!Next]_Feed!vars
  <2> DEFINE open == ~StoppedAll
  <2>1. CASE UNCHANGED <<committed, told, destroy>>
    BY <2>1 DEF Feed!vars, StoppedAll
  <2>2. CASE Commit
    BY <2>2 DEF Commit, loopVars, destroyVars, StoppedAll, Feed!Next, Feed!Commit
  <2>3. CASE Drain
    <3>1. open /\ UNCHANGED <<committed, destroy>> /\ channel # <<>>
      <4>1. UNCHANGED <<committed, destroy>> /\ channel # <<>> /\ lpc = "drain"
        BY <2>3 DEF Drain, serverVars, destroyVars
      <4>2. destroy = "stop" \/ StoppedAll => lpc = "exited"
        BY <1>2 DEF IInv, LoopInv
      <4> QED
        BY <4>1, <4>2
    <3>2. CASE UNCHANGED told
      BY <3>1, <3>2 DEF Feed!vars, StoppedAll
    <3>3. CASE Head(channel) \notin Malformed /\ told' = Append(told, Head(channel))
      <4>1. /\ committed \in Nat /\ wire \in Seq(Nat) /\ channel \in Seq(Nat)
            /\ Feed!LastTold \in Nat /\ Head(channel) \in Nat
        <5>1. committed \in Nat /\ wire \in Seq(Nat) /\ channel \in Seq(Nat \ {Ready})
          BY <1>2 DEF IInv, TypeOK
        <5>2. told \in Seq(Nat)
          BY <1>2 DEF IInv, TypeOK
        <5> QED
          BY <3>1, <5>1, <5>2, TailFacts DEF Feed!LastTold
      <4>2. Feed!LastTold < Head(channel) /\ Head(channel) <= committed
        BY <1>2, <3>1, <4>1, OrderedDrain DEF IInv, OrderInv
      <4>3. Head(channel) \in (Feed!LastTold + 1)..committed
        BY <4>1, <4>2
      <4> QED
        BY <3>1, <3>3, <4>3 DEF Feed!Next, Feed!Tell, StoppedAll
    <3> QED
      BY <2>3, <3>2, <3>3 DEF Drain, broadcast
  <2>4. CASE Cancel \/ Join
    BY <2>4 DEF Cancel, Join, StoppedAll, serverVars, loopVars, Feed!vars
  <2>5. CASE StopAll
    BY <2>5 DEF StopAll, StoppedAll, serverVars, loopVars, Feed!Next, Feed!Close
  <2>6. CASE CloseDB \/ PoolDrained
    BY <2>6 DEF CloseDB, PoolDrained, StoppedAll, serverVars, loopVars, Feed!vars
  <2> QED
    BY <1>2, <2>1, <2>2, <2>3, <2>4, <2>5, <2>6
       DEF Next, Listener, Destroyer, Finished, CommitListen, SendReady, Try, Connect, ReadAnswer,
           Read, EndDrain, Interrupt, Fail, Backoff, Watch, Stop, Acquire, Release,
           vars, serverVars, loopVars, watchVars, destroyVars
<1> QED
  BY <1>1, <1>2, Invariance, PTL DEF Spec, Feed!Spec, ImplementsFeed
================================================================================
