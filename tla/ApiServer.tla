------------------------------ MODULE ApiServer ------------------------------
(***************************************************************************)
(* The objects of one kind in a Kubernetes API server (external), as koprs *)
(* sees them: addressed by namespace and name, with a uid that changes     *)
(* when an object is replaced, a resourceVersion that changes with every   *)
(* write, finalizers in a list, labels, and data.  Users and the           *)
(* controllers of others write them between any two calls of a helper.     *)
(***************************************************************************)
EXTENDS Naturals, SequencesExt

CONSTANTS
  Keys,        \* the objects' places: records with fields ns and name
  Mine,        \* the operator's finalizer
  Owner,       \* the label the operator selects by
  Others,      \* controllers of others; each has a finalizer and a label
  Data,        \* what else an object says
  MaxWrites,   \* bound: writes of users and others
  MaxCalls     \* bound: calls of the helpers that can write or fail

ASSUME ApiAssumption ==
  /\ IsFiniteSet(Keys)
  /\ \A k \in Keys : k = [ns |-> k.ns, name |-> k.name]
  /\ Mine \notin Others /\ Owner \notin Others
  /\ MaxWrites \in Nat /\ MaxCalls \in Nat

VARIABLES
  objects,   \* at each place its object
  clock,     \* the last uid or resourceVersion given
  stream,    \* events a watch has not taken yet
  watched,   \* which objects are watched: "none", "labelled" or "all"
  held,      \* what others have put on an object and not taken off again
  writes, calls   \* counters of the bounds

api == <<objects, clock, stream, watched, held, writes, calls>>

Object == [uid : Nat, rv : Nat, deleting : BOOLEAN,
           finalizers : Seq(Others \cup {Mine}),
           labels : SUBSET (Others \cup {Owner}), data : Data]
Absent == [uid |-> 0, rv |-> 0]
Mark   == [uid : Nat, sort : {"finalizer", "label"}, by : Others]

Exists(k) == objects[k] # Absent
Live      == {k \in Keys : Exists(k)}

InitApi ==
  /\ objects = [k \in Keys |-> Absent]
  /\ clock = 0 /\ stream = <<>> /\ watched = "none"
  /\ held = {} /\ writes = 0 /\ calls = 0

-----------------------------------------------------------------------------
(***************************************************************************)
(* Writes.                                                                 *)
(***************************************************************************)
Selected(o) ==
  o # Absent /\ (watched = "all" \/ (watched = "labelled" /\ Owner \in o.labels))

\* What a watch reports of a write.  An object that is no longer selected is
\* reported as deleted.
News(k, o) ==
  IF Selected(o) THEN <<[type |-> "Apply", key |-> k, rv |-> o.rv]>>
  ELSE IF Selected(objects[k]) THEN <<[type |-> "Delete", key |-> k, rv |-> 0]>>
  ELSE <<>>

\* A write that changes nothing makes no new version; an object that is being
\* deleted ends with its last finalizer.
Put(k, new) ==
  IF new = objects[k]
  THEN UNCHANGED <<objects, clock, stream>>
  ELSE LET o == IF new.deleting /\ new.finalizers = <<>>
                THEN Absent ELSE [new EXCEPT !.rv = clock + 1]
       IN  /\ objects' = [objects EXCEPT ![k] = o]
           /\ clock' = clock + 1
           /\ stream' = stream \o News(k, o)

New(labels, data) ==
  [uid |-> clock + 1, rv |-> 0, deleting |-> FALSE, finalizers |-> <<>>,
   labels |-> labels, data |-> data]

Terminate(k) == Put(k, [objects[k] EXCEPT !.deleting = TRUE])

-----------------------------------------------------------------------------
(***************************************************************************)
(* Users and others.                                                       *)
(***************************************************************************)
Outside == writes < MaxWrites /\ writes' = writes + 1 /\ UNCHANGED <<watched, calls>>

UserCreates ==
  /\ Outside
  /\ \E k \in Keys, labels \in SUBSET {Owner}, d \in Data :
       ~Exists(k) /\ Put(k, New(labels, d))
  /\ UNCHANGED held

UserEdits ==
  /\ Outside
  /\ \E k \in Live :
       \/ \E d \in Data : Put(k, [objects[k] EXCEPT !.data = d])
       \/ Put(k, [objects[k] EXCEPT !.labels =
                    IF Owner \in @ THEN @ \ {Owner} ELSE @ \cup {Owner}])
  /\ UNCHANGED held

UserDeletes ==
  /\ Outside
  /\ \E k \in Live : ~objects[k].deleting /\ Terminate(k)
  /\ UNCHANGED held

\* Nothing can be added to the finalizers of an object that is being deleted.
OtherMarks ==
  /\ Outside
  /\ \E k \in Live, f \in Others :
       LET o == objects[k] IN
       \/ /\ ~o.deleting /\ f \notin ToSet(o.finalizers)
          /\ Put(k, [o EXCEPT !.finalizers = Append(@, f)])
          /\ held' = held \cup {[uid |-> o.uid, sort |-> "finalizer", by |-> f]}
       \/ /\ f \notin o.labels
          /\ Put(k, [o EXCEPT !.labels = @ \cup {f}])
          /\ held' = held \cup {[uid |-> o.uid, sort |-> "label", by |-> f]}

OtherUnmarks ==
  /\ Outside
  /\ \E k \in Live, m \in held :
       /\ m.uid = objects[k].uid /\ m.sort = "finalizer"
       /\ \E i \in DOMAIN objects[k].finalizers :
            /\ objects[k].finalizers[i] = m.by
            /\ Put(k, [objects[k] EXCEPT !.finalizers = RemoveAt(@, i)])
       /\ held' = held \ {m}

ApiNext == UserCreates \/ UserEdits \/ UserDeletes \/ OtherMarks \/ OtherUnmarks

\* A call of a helper.
Call == calls < MaxCalls /\ calls' = calls + 1 /\ UNCHANGED <<watched, writes>>
=============================================================================
