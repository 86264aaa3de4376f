--------------------------- MODULE NotificationFeed ----------------------------
(* What the listener promises to the watchers of one server: of the            *)
(* notifications that are committed, some are broadcast, each at most once and *)
(* in the order of their commits, none that cannot be decoded, and none after  *)
(* the storage has stopped its watchers.  It does not promise to tell them all.*)
EXTENDS Naturals, Sequences

CONSTANT Malformed  \* numbers of the notifications that cannot be decoded

VARIABLES
    committed,  \* number of notifications committed; they bear their numbers
    told,       \* those broadcast, in the order of the broadcasts
    open        \* the watchers have not been stopped

vars == <<committed, told, open>>

Init ==
    /\ committed = 0
    /\ told = <<>>
    /\ open = TRUE

LastTold == IF told = <<>> THEN 0 ELSE told[Len(told)]

Commit ==
    /\ committed' = committed + 1
    /\ UNCHANGED <<told, open>>

Tell ==
    /\ open
    /\ \E n \in (LastTold + 1)..committed :
          /\ n \notin Malformed
          /\ told' = Append(told, n)
    /\ UNCHANGED <<committed, open>>

Close ==
    /\ open' = FALSE
    /\ UNCHANGED <<committed, told>>

Next == Commit \/ Tell \/ Close

Spec == Init /\ [][Next]_vars
================================================================================
