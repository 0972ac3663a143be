--------------------------- MODULE GarbageCollection ---------------------------
(***************************************************************************)
(* gc_resources: list by label in a scope, then delete, one by one, what   *)
(* the caller does not desire.                                             *)
(***************************************************************************)
EXTENDS ApiServer

VARIABLES
  gc,         \* "idle", "deleting", and the result: "Ok" or "Err"
  scope,      \* the namespace it works in, or "all"
  todo,       \* objects of the list still to be deleted, with their places
  orphans     \* uids it has decided to delete

gcVars == <<gc, scope, todo, orphans>>

InitGc == gc = "idle" /\ scope = "all" /\ todo = {} /\ orphans = {}

InScope(s) == {k \in Keys : s \in {"all", k.ns}}

\* Seeded faults stand before the definition they replace.
\* In all namespaces, the object is looked for in another one.
ObjectApiElsewhere(ns) ==
  IF scope = "all" THEN (CHOOSE k \in Keys : k.ns # ns).ns ELSE scope

\* ListScope::object_api: the namespace a delete goes to.
object_api(ns) == IF scope = "all" THEN ns ELSE scope

\* The list.  Both tests of the loop are on the listed object.
List ==
  /\ gc # "deleting"
  /\ Call
  /\ \E s \in {"all"} \cup {k.ns : k \in Keys}, desired \in SUBSET Keys :
       /\ scope' = s
       /\ todo' = {[key |-> k, uid |-> objects[k].uid] :
                     k \in {l \in Live \cap InScope(s) :
                              /\ Owner \in objects[l].labels
                              /\ l \notin desired
                              /\ ~objects[l].deleting}}
  /\ orphans' = {o.uid : o \in todo'}
  /\ gc' = "deleting"
  /\ UNCHANGED <<objects, clock, stream, held>>

\* By name only.
DeleteByName(k, uid) ==
  IF Exists(k) THEN Terminate(k) ELSE UNCHANGED <<objects, clock, stream>>

\* The delete with its uid precondition: 404 and 409 change nothing.
Delete(k, uid) ==
  IF Exists(k) /\ objects[k].uid = uid
  THEN Terminate(k) ELSE UNCHANGED <<objects, clock, stream>>

DeleteNext ==
  /\ gc = "deleting"
  /\ \E o \in todo :
       /\ Delete([o.key EXCEPT !.ns = object_api(@)], o.uid)
       /\ todo' = todo \ {o}
  /\ UNCHANGED <<gc, scope, orphans, watched, held, writes, calls>>

\* An error is taken for an object that is gone.
ErrorIgnored ==
  /\ gc = "deleting"
  /\ Call
  /\ \E o \in todo : todo' = todo \ {o}
  /\ UNCHANGED <<gc, scope, orphans, objects, clock, stream, held>>

\* Any other error ends the call, whether the delete was served or not.
DeleteFails ==
  /\ gc = "deleting"
  /\ Call
  /\ \E o \in todo :
       \/ Delete([o.key EXCEPT !.ns = object_api(@)], o.uid)
       \/ UNCHANGED <<objects, clock, stream>>
  /\ todo' = {} /\ gc' = "Err"
  /\ UNCHANGED <<scope, orphans, held>>

GcDone ==
  /\ gc = "deleting" /\ todo = {}
  /\ gc' = "Ok"
  /\ UNCHANGED <<scope, todo, orphans, api>>

GcNext == List \/ DeleteNext \/ DeleteFails \/ GcDone
=============================================================================
