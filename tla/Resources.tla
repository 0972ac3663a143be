------------------------------- MODULE Resources -------------------------------
(***************************************************************************)
(* The resource helpers: apply, ensure, delete, the metadata patches, and   *)
(* the two that poll, wait_for_resources and wait_for_condition.  One call  *)
(* runs at a time; each of its requests is one step.                        *)
(***************************************************************************)
EXTENDS ApiServer

CONSTANTS
  Want,        \* the data of the resource to be applied, and what is waited for
  Intervals    \* seconds between two polls, given by the caller

ASSUME WaitAssumption == Want \in Data /\ Intervals \subseteq Nat \ {0}

VARIABLES
  task,      \* the call and its next step, "idle" when none runs
  place,     \* the object it is about
  interval,  \* of a call that polls
  delay,     \* seconds it sleeps before the next poll
  live_rv,   \* ensure_resource: version seen before the apply, 0 when none
  result     \* of the last call

resourceVars == <<task, place, interval, delay, live_rv, result>>

Results == {"none", "Err", "Ok", "gone", "Created", "Updated", "Unchanged", "found"}

InitResources ==
  /\ task = "idle" /\ place \in Keys
  /\ interval = 0 /\ delay = 0 /\ live_rv = 0 /\ result = "none"

Polling == {"wait_for_resources", "wait_for_condition"}

Return(r) ==
  /\ task' = "idle" /\ result' = r
  /\ interval' = 0 /\ delay' = 0 /\ live_rv' = 0
  /\ UNCHANGED place

Goto(step) == task' = step /\ UNCHANGED <<place, interval, result>>

-----------------------------------------------------------------------------
\* Server-side apply, forced: the operator's label and data, and nothing else.
Applied(k) ==
  IF Exists(k)
  THEN [objects[k] EXCEPT !.data = Want, !.labels = @ \cup {Owner}]
  ELSE New({Owner}, Want)

\* The reply of a request, or an error before or after it was served.
Served(request) ==
  request \/ UNCHANGED <<objects, clock, stream>>

apply_resource ==
  /\ task = "idle" /\ Call
  /\ \/ Put(place, Applied(place)) /\ Return("Ok")
     \/ Served(Put(place, Applied(place))) /\ Return("Err")
  /\ UNCHANGED held

\* No precondition: whatever bears the name is deleted.
delete_resource ==
  /\ task = "idle" /\ Call
  /\ \/ Exists(place) /\ Terminate(place) /\ Return("Ok")
     \/ ~Exists(place) /\ UNCHANGED <<objects, clock, stream>> /\ Return("gone")
     \/ Exists(place) /\ Served(Terminate(place)) /\ Return("Err")
  /\ UNCHANGED held

\* Seeded faults stand before the definition they replace.
\* The labels are put instead of merged.
LabelsReplaced(old, new) == new

\* JSON merge patch of labels or annotations: only the given keys change.
patch_metadata(old, new) == (old \ {Owner}) \cup new

\* Annotations are no different.
Relabel(new) ==
  /\ task = "idle" /\ Call
  /\ IF Exists(place)
     THEN /\ Put(place, [objects[place] EXCEPT !.labels = patch_metadata(@, new)])
          /\ Return("Ok")
     ELSE UNCHANGED <<objects, clock, stream>> /\ Return("Err")
  /\ UNCHANGED held

patch_labels  == Relabel({Owner})
remove_labels == Relabel({})

-----------------------------------------------------------------------------
(***************************************************************************)
(* ensure_resource: GET, then apply, and compare the versions.             *)
(***************************************************************************)
EnsureGet ==
  /\ task = "idle" /\ Call
  /\ \/ Goto("ensure_resource") /\ live_rv' = objects[place].rv /\ UNCHANGED delay
     \/ Return("Err")
  /\ UNCHANGED <<objects, clock, stream, held>>

\* Whether the object was there is all that counts.
OutcomeByPresence(old, new) == IF old = 0 THEN "Created" ELSE "Unchanged"

Outcome(old, new) ==
  CASE old = 0              -> "Created"
    [] old # 0 /\ new # old -> "Updated"
    [] OTHER                -> "Unchanged"

EnsureApply ==
  /\ task = "ensure_resource" /\ Call
  /\ \/ Put(place, Applied(place)) /\ Return(Outcome(live_rv, objects'[place].rv))
     \/ Served(Put(place, Applied(place))) /\ Return("Err")
  /\ UNCHANGED held

-----------------------------------------------------------------------------
(***************************************************************************)
(* Polling.                                                                *)
(***************************************************************************)
StartWait ==
  /\ task = "idle"
  /\ Call
  /\ task' \in Polling /\ interval' \in Intervals
  /\ delay' = 0
  /\ UNCHANGED <<objects, clock, stream, held, place, live_rv, result>>

\* The ceiling is left out.
Uncapped(seconds) == seconds

Capped(seconds) == IF seconds < 60 THEN seconds ELSE 60

\* One object is not taken for a list that is not empty.
SatisfiedByMany ==
  IF task = "wait_for_resources" THEN \E k, l \in Live : k # l
  ELSE Exists(place) /\ objects[place].data = Want

\* What ends the wait: a list that is not empty, an object the predicate holds of.
Satisfied ==
  IF task = "wait_for_resources" THEN Live # {}
  ELSE Exists(place) /\ objects[place].data = Want

Sleep(seconds) ==
  delay' = seconds /\ UNCHANGED <<task, place, interval, live_rv, result>>

\* The kind may be unknown yet (404, lists only); other errors wait longer.
SleepAfterError ==
  \/ task = "wait_for_resources" /\ Sleep(Capped(interval))
  \/ Sleep(Capped(2 * interval))

Poll ==
  /\ task \in Polling /\ delay = 0
  /\ IF Satisfied THEN Return("found") ELSE Sleep(interval)
  /\ UNCHANGED api

PollFails ==
  /\ task \in Polling /\ delay = 0
  /\ Call
  /\ SleepAfterError
  /\ UNCHANGED <<objects, clock, stream, held>>

Wake ==
  /\ task \in Polling /\ delay > 0
  /\ delay' = 0
  /\ UNCHANGED <<task, place, interval, live_rv, result, api>>

ResourcesNext ==
  \/ apply_resource \/ delete_resource \/ patch_labels \/ remove_labels
  \/ EnsureGet \/ EnsureApply
  \/ StartWait \/ Poll \/ PollFails \/ Wake
=============================================================================
