--------------------------- MODULE MCInMemoryStorage ---------------------------
(* Instances of InMemoryStorage for TLC.                                       *)
EXTENDS InMemoryStorage, MCFieldSelectors, TLC

CONSTANTS r1, r2, r3, w1

RequestSymmetry == Permutations(Requests)

(* Nothing, the filters and selectors included, tells a namespace, name, spec  *)
(* or phase from other ones.                                                   *)
Symmetry ==
    Permutations(Requests) \cup Permutations(Namespaces) \cup Permutations(Names)
        \cup Permutations(SolutionNames) \cup Permutations(Phases)

(* kubectl get solutions -w, in all namespaces and without a field selector.   *)
Everything == {[ns |-> All, sel |-> <<>>]}

(* A watch of one namespace or of all, with any supported field selector.      *)
EveryFilter == Filter
================================================================================
