------------------------------ MODULE Finalizers ------------------------------
(***************************************************************************)
(* add_finalizer, remove_finalizer and remove_finalizers: JSON patches made *)
(* from a copy of the object that may be old, guarded by tests that the     *)
(* server makes on the object as it is.                                     *)
(***************************************************************************)
EXTENDS ApiServer

VARIABLE
  copy     \* the copy the operator works on, and where it was read

NoCopy == [key |-> CHOOSE k \in Keys : TRUE, object |-> Absent]

InitFinalizers == copy = NoCopy

\* The operator reads the object, or a cache does for it.
ReadCopy ==
  /\ \E k \in Live : copy' = [key |-> k, object |-> objects[k]]
  /\ UNCHANGED api

current_finalizers == copy.object.finalizers

\* The patch is served with the reply lost, or its result is the next copy.
Reply == copy' \in {copy, [copy EXCEPT !.object = objects'[copy.key]]}

\* Seeded faults stand before the definition they replace.
\* The test is left out.
AddUntested ==
  /\ Exists(copy.key) /\ ~objects[copy.key].deleting
  /\ Put(copy.key, [objects[copy.key] EXCEPT
                      !.finalizers = Append(current_finalizers, Mine)])

\* test that the list is the copy's, then append.
add_finalizer_patch ==
  /\ Exists(copy.key) /\ ~objects[copy.key].deleting
  /\ objects[copy.key].finalizers = current_finalizers
  /\ Put(copy.key, [objects[copy.key] EXCEPT !.finalizers = Append(@, Mine)])

\* A finalizer the copy has already is not added again.
add_finalizer ==
  /\ copy.object # Absent
  /\ Mine \notin ToSet(current_finalizers)
  /\ Call
  /\ add_finalizer_patch /\ Reply
  /\ UNCHANGED held

index == CHOOSE i \in 1 .. Len(current_finalizers) : current_finalizers[i] = Mine

\* The entry at the index is removed, whosever it is.
RemoveUntested ==
  /\ Exists(copy.key) /\ index <= Len(objects[copy.key].finalizers)
  /\ Put(copy.key, [objects[copy.key] EXCEPT !.finalizers = RemoveAt(@, index)])

\* test that the entry at the index is still Mine, then remove it.
remove_finalizer_patch ==
  /\ Exists(copy.key) /\ index <= Len(objects[copy.key].finalizers)
  /\ objects[copy.key].finalizers[index] = Mine
  /\ Put(copy.key, [objects[copy.key] EXCEPT !.finalizers = RemoveAt(@, index)])

remove_finalizer ==
  /\ copy.object # Absent
  /\ Mine \in ToSet(current_finalizers)
  /\ Call
  /\ remove_finalizer_patch /\ Reply
  /\ UNCHANGED held

\* A patch whose test fails changes nothing; neither does one that is lost.
PatchFails == copy.object # Absent /\ copy' = NoCopy /\ UNCHANGED api

\* The break-glass call: whoever makes it takes what others hold.
remove_finalizers ==
  /\ Call
  /\ \E k \in Live :
       /\ Put(k, [objects[k] EXCEPT !.finalizers = <<>>])
       /\ held' = {m \in held : m.uid # objects[k].uid \/ m.sort # "finalizer"}
  /\ UNCHANGED copy

FinalizersNext ==
  ReadCopy \/ add_finalizer \/ remove_finalizer \/ PatchFails \/ remove_finalizers
=============================================================================
