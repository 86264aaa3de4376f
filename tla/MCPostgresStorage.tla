--------------------------- MODULE MCPostgresStorage ---------------------------
(* Instances of PostgresStorage for TLC.                                       *)
EXTENDS PostgresStorage, MCFieldSelectors, TLC

CONSTANTS r1, r2, r3

RequestSymmetry == Permutations(Requests)

(* Nothing, the selectors included, tells a name, namespace or spec from other *)
(* ones.                                                                       *)
Symmetry ==
    Permutations(Requests) \cup Permutations(Namespaces)
        \cup Permutations(Names) \cup Permutations(SolutionNames)
================================================================================
