------------------------------- MODULE Solutions -------------------------------
(* The Solution resource as both storage backends hold it                      *)
(* (pkg/apis/solution/types.go, and the fields a write derives from an old     *)
(* version in pkg/registry/solution/storage.go).                               *)
(*                                                                             *)
(* "spec" stands for everything an UpdateStatus must leave alone (Spec, labels *)
(* and the rest of ObjectMeta) and "phase" for the whole Status.  "born" is a  *)
(* ghost: the request whose Create made the object.  It names the incarnation, *)
(* so that an object deleted and created again under one name counts as two.   *)
(* It is not the UID, which Update takes from the client's object unchecked    *)
(* (storage.go:203-207), like everything else that "spec" stands for.          *)
EXTENDS Naturals

CONSTANTS
    Requests,       \* requests the API server dispatches, one goroutine each
    Namespaces,
    Names,
    SolutionNames,  \* values of spec.solutionName
    Phases,         \* values of status.phase
    Nil             \* absent object, free lock, unanswered request

key(ns, name) == <<ns, name>>
NamespaceOf(k) == k[1]
Keys == Namespaces \X Names

Version == Nat \ {0}

Solution == [key: Keys, born: Requests, rv: Version,
             spec: SolutionNames, phase: Phases]

(* Mutant: Create does not set ResourceVersion.                                *)
CreatedUnversioned(r, k, spec, phase) ==
    [key |-> k, born |-> r, rv |-> 0, spec |-> spec, phase |-> phase]

(* Create: the first version of an object, with the client's spec and status.  *)
Created(r, k, spec, phase) ==
    [key |-> k, born |-> r, rv |-> 1, spec |-> spec, phase |-> phase]

(* rv, _ := strconv.Atoi(existing.ResourceVersion); strconv.Itoa(rv + 1).      *)
(* The version the client sent is overwritten, never compared.                 *)
NextVersion(existing) == existing.rv + 1

(* Mutant: Update keeps the version it found.                                  *)
UpdatedSameVersion(existing, spec, phase) ==
    [existing EXCEPT !.spec = spec, !.phase = phase]

(* Update: the client's object replaces spec and status alike; it is the same  *)
(* incarnation of the object, whatever UID it carries.                         *)
Updated(existing, spec, phase) ==
    [existing EXCEPT !.rv = NextVersion(existing), !.spec = spec, !.phase = phase]

(* UpdateStatus: only the status is taken from the client's object.            *)
StatusUpdated(existing, phase) ==
    [existing EXCEPT !.rv = NextVersion(existing), !.phase = phase]

Operations == {"Create", "Update", "UpdateStatus", "Delete", "DeleteCollection",
               "Get", "List"}
Outcomes   == {"ok", "AlreadyExists", "NotFound", "Invalid", "Error"}
Results    == [op: Operations, out: Outcomes]

Reply(op, out) == [op |-> op, out |-> out]

ASSUME NilAssumption ==
    /\ Nil \notin Requests
    /\ Nil \notin Namespaces
    /\ Nil \notin Solution
    /\ Nil \notin Results
================================================================================
