----------------------------- MODULE FieldSelectors ----------------------------
(* Field selectors: which they are (GetAttrs and validateFieldSelector of      *)
(* storage.go), what List of the in-memory storage answers to one, and what    *)
(* List of the PostgreSQL storage makes of it in SQL.                          *)
(*                                                                             *)
(* A selector is a sequence of requirements [field, equals, value]: field =    *)
(* value, or field != value when equals is FALSE.                              *)
EXTENDS Solutions, Sequences

CONSTANTS
    Selectors,  \* field selectors of List, DeleteCollection and Watch
    All         \* the namespace "" of a request for all namespaces

ASSUME AllNamespacesAssumption == All \notin Namespaces

NameOf(k) == k[2]

Fields == {"metadata.name", "metadata.namespace", "spec.solutionName"}

GetAttrs(sol) ==
    [field \in Fields |-> CASE field = "metadata.name"      -> NameOf(sol.key)
                            [] field = "metadata.namespace" -> NamespaceOf(sol.key)
                            [] field = "spec.solutionName"  -> sol.spec]

(* validateFieldSelector.                                                      *)
Supported(sel) == \A i \in DOMAIN sel : sel[i].field \in Fields

(* fields.Selector.Matches.                                                    *)
Selects(sel, sol) ==
    \A i \in DOMAIN sel : (GetAttrs(sol)[sel[i].field] = sel[i].value) <=> sel[i].equals

(* The objects of a namespace, or of all of them.                              *)
Objects(table, ns) ==
    {table[k] : k \in {k \in Keys : table[k] # Nil /\ ns \in {All, NamespaceOf(k)}}}

(* InMemoryStorage.List.                                                       *)
MemoryList(table, ns, sel) == {sol \in Objects(table, ns) : Selects(sel, sol)}

--------------------------------------------------------------------------------
(* PostgresStorage.List.                                                       *)

(* Each requirement on the name adds "AND spec_solution_name=$2" to the query, *)
(* whatever its operator, and an argument.                                     *)
NameRequirements(sel) == {i \in DOMAIN sel : sel[i].field = "spec.solutionName"}

(* The query mentions $1 and $2, so more than two arguments are an error.      *)
ArgumentsMatch(sel) == \A i, j \in NameRequirements(sel) : i = j

(* Equality with the argument for the namespace, "" included.                  *)
Where(sel, ns, row) ==
    /\ NamespaceOf(row.key) = ns
    /\ \A i \in NameRequirements(sel) : row.spec = sel[i].value

(* The other requirements are checked on the rows that come back.              *)
SqlList(table, ns, sel) ==
    {row \in Objects(table, All) : Where(sel, ns, row) /\ Selects(sel, row)}
================================================================================
