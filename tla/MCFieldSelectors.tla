---------------------------- MODULE MCFieldSelectors ---------------------------
(* Sets of field selectors for TLC.                                            *)
EXTENDS FieldSelectors

Is(field, value)    == <<[field |-> field, equals |-> TRUE, value |-> value]>>
IsNot(field, value) == <<[field |-> field, equals |-> FALSE, value |-> value]>>

(* A watch or a list of everything.                                            *)
NoSelector == {<<>>}

(* None, one requirement of each kind, two on different fields, two on one     *)
(* field, and one on a field that is not supported.                            *)
EveryKind ==
    {<<>>}
    \cup {Is("metadata.name", name) : name \in Names}
    \cup {IsNot("metadata.namespace", ns) : ns \in Namespaces}
    \cup {Is("spec.solutionName", spec) : spec \in SolutionNames}
    \cup {IsNot("spec.solutionName", spec) : spec \in SolutionNames}
    \cup {Is("spec.solutionName", spec) \o IsNot("metadata.name", name) :
             spec \in SolutionNames, name \in Names}
    \cup {IsNot("spec.solutionName", spec) \o IsNot("spec.solutionName", other) :
             spec, other \in SolutionNames}
    \cup {Is("status.phase", phase) : phase \in Phases}
================================================================================
