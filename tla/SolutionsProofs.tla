---------------------------- MODULE SolutionsProofs ----------------------------
(* Facts about Solutions that the proofs of both backends rest on.             *)
EXTENDS Solutions, TLAPS

(* What a write makes of the version it finds.                                 *)

LEMMA CreatedType ==
  ASSUME NEW r \in Requests, NEW k \in Keys,
         NEW spec \in SolutionNames, NEW phase \in Phases
  PROVE  /\ Created(r, k, spec, phase) \in Solution
         /\ Created(r, k, spec, phase).key = k
         /\ Created(r, k, spec, phase).born = r
  BY DEF Created, Solution, Version

LEMMA UpdatedType ==
  ASSUME NEW o \in Solution, NEW spec \in SolutionNames, NEW phase \in Phases
  PROVE  /\ Updated(o, spec, phase) \in Solution
         /\ Updated(o, spec, phase).key = o.key
         /\ Updated(o, spec, phase).born = o.born
         /\ Updated(o, spec, phase).rv = o.rv + 1
         /\ Updated(o, spec, phase).spec = spec
         /\ Updated(o, spec, phase).phase = phase
<1>1. o.rv + 1 \in Version
  BY DEF Solution, Version
<1> QED
  BY <1>1 DEF Updated, NextVersion, Solution

LEMMA StatusUpdatedType ==
  ASSUME NEW o \in Solution, NEW phase \in Phases
  PROVE  /\ StatusUpdated(o, phase) \in Solution
         /\ StatusUpdated(o, phase).key = o.key
         /\ StatusUpdated(o, phase).born = o.born
         /\ StatusUpdated(o, phase).rv = o.rv + 1
         /\ StatusUpdated(o, phase).spec = o.spec
         /\ StatusUpdated(o, phase).phase = phase
<1>1. o.rv + 1 \in Version
  BY DEF Solution, Version
<1> QED
  BY <1>1 DEF StatusUpdated, NextVersion, Solution

LEMMA NilIsNoSolution == Nil \notin Solution /\ Nil \notin Requests
  BY NilAssumption DEF NilAssumption

LEMMA ReplyType ==
  ASSUME NEW op \in Operations, NEW out \in Outcomes
  PROVE  /\ Reply(op, out) \in Results
         /\ Reply(op, out) # Nil
         /\ Reply(op, out).op = op
         /\ Reply(op, out).out = out
  BY NilAssumption DEF NilAssumption, Reply, Results
================================================================================
