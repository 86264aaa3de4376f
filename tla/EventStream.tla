------------------------------ MODULE EventStream ------------------------------
(* What a watcher promises to the watch handler it serves: of the events that  *)
(* are broadcast, in their order, those that match the filter arrive through a *)
(* bounded buffer.  An event is lost for one reason only, that the buffer was  *)
(* full when its turn came; after the stream has been closed nothing is added, *)
(* and what is buffered can still be received before the end is seen.          *)
EXTENDS Naturals, Sequences

CONSTANTS
    Matching,   \* numbers of the broadcast events that match the filter
    ChanSize    \* watchChanSize

VARIABLES
    closed,     \* Stop has taken effect
    offered,    \* number of events decided upon so far
    queue,      \* matching events buffered
    delivered,  \* events received
    ended       \* the receiver has seen the end of the stream

vars == <<closed, offered, queue, delivered, ended>>

Init ==
    /\ closed = FALSE
    /\ offered = 0
    /\ queue = <<>>
    /\ delivered = <<>>
    /\ ended = FALSE

Upcoming == offered + 1

Accept ==
    /\ ~closed
    /\ Upcoming \in Matching
    /\ Len(queue) < ChanSize
    /\ queue' = Append(queue, Upcoming)
    /\ offered' = Upcoming
    /\ UNCHANGED <<closed, delivered, ended>>

(* Not for this stream, too late for it, or no room.                           *)
PassOver ==
    /\ closed \/ Upcoming \notin Matching \/ Len(queue) = ChanSize
    /\ offered' = Upcoming
    /\ UNCHANGED <<closed, queue, delivered, ended>>

Close ==
    /\ closed' = TRUE
    /\ UNCHANGED <<offered, queue, delivered, ended>>

Receive ==
    /\ queue # <<>>
    /\ queue' = Tail(queue)
    /\ delivered' = Append(delivered, Head(queue))
    /\ UNCHANGED <<closed, offered, ended>>

End ==
    /\ closed
    /\ queue = <<>>
    /\ ended' = TRUE
    /\ UNCHANGED <<closed, offered, queue, delivered>>

Next == Accept \/ PassOver \/ Close \/ Receive \/ End

Spec == Init /\ [][Next]_vars
================================================================================
