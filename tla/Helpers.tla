-------------------------------- MODULE Helpers --------------------------------
(***************************************************************************)
(* koprs's helpers at work, each against an API server that users and other *)
(* controllers write at the same time.  The helpers share no state but the  *)
(* server, and every write one of them makes there is a write an outsider   *)
(* can make: one helper at a time meets all that the others could do to it. *)
(***************************************************************************)
EXTENDS Finalizers, GarbageCollection, Resources, Watchers

CONSTANT
  Used      \* the helpers to choose from

ASSUME UsedAssumption == Used \subseteq {"finalizers", "gc", "resources", "watchers"}

VARIABLE
  helper    \* the one at work; no step changes it

vars == <<helper, api, copy, gcVars, resourceVars, watcherVars>>

Init ==
  /\ helper \in Used
  /\ InitApi /\ InitFinalizers /\ InitGc /\ InitResources /\ InitWatchers
  /\ helper # "watchers" => mode = "events"
  /\ helper # "resources" => place = CHOOSE k \in Keys : TRUE

Outsiders ==
  ApiNext /\ UNCHANGED <<helper, copy, gcVars, resourceVars, watcherVars>>
FinalizersStep ==
  /\ helper = "finalizers" /\ FinalizersNext
  /\ UNCHANGED <<helper, gcVars, resourceVars, watcherVars>>
GcStep ==
  /\ helper = "gc" /\ GcNext
  /\ UNCHANGED <<helper, copy, resourceVars, watcherVars>>
ResourcesStep ==
  /\ helper = "resources" /\ ResourcesNext
  /\ UNCHANGED <<helper, copy, gcVars, watcherVars>>
WatchersStep ==
  /\ helper = "watchers" /\ WatchersNext
  /\ UNCHANGED <<helper, copy, gcVars, resourceVars>>

Next == Outsiders \/ FinalizersStep \/ GcStep \/ ResourcesStep \/ WatchersStep

Spec == Init /\ [][Next]_vars

\* A wait polls and wakes; a watch task takes and sends what it can.
Fairness ==
  /\ WF_vars(ResourcesStep /\ task \in Polling /\ (Poll \/ Wake))
  /\ WF_vars(WatchersStep /\ (TakeEvent \/ Send))

FairSpec == Spec /\ Fairness

-----------------------------------------------------------------------------
(***************************************************************************)
(* Properties.                                                             *)
(***************************************************************************)

TypeOK ==
  /\ objects \in [Keys -> Object \cup {Absent}]
  /\ \A k \in Live :
       /\ 0 < objects[k].uid /\ objects[k].uid <= objects[k].rv
       /\ objects[k].rv <= clock
       /\ \A i, j \in DOMAIN objects[k].finalizers :
            objects[k].finalizers[i] = objects[k].finalizers[j] => i = j
  /\ clock \in Nat
  /\ held \subseteq Mark
  /\ copy \in [key : Keys, object : Object \cup {Absent}]
  /\ gc \in {"idle", "deleting", "Ok", "Err"}
  /\ todo \subseteq [key : InScope(scope), uid : orphans]
  /\ task \in Polling \cup {"idle", "ensure_resource"} /\ place \in Keys
  /\ live_rv \in 0 .. clock /\ result \in Results
  /\ delay \in Nat /\ (delay <= 60 \/ delay = interval)
  /\ watcher \in {"none", "running", "ended"}
  /\ sending \in Seq(Message) /\ Len(sending) <= 1
  /\ channel \in Seq(Message) /\ Len(channel) <= Capacity
  /\ mirror \in [Keys -> 0 .. clock]

\* No helper takes away what somebody else has put on an object, as long as the
\* object is there, and an object does not end while somebody else's finalizer
\* holds it (finalizers.rs:91-97, 148-155, resources.rs:601-604).
HeldKept ==
  \A m \in held :
    IF m.sort = "label"
    THEN \A k \in Live : objects[k].uid = m.uid => m.by \in objects[k].labels
    ELSE \E k \in Live : objects[k].uid = m.uid /\ m.by \in ToSet(objects[k].finalizers)

\* gc_resources changes no object but those it found in its scope, labelled,
\* undesired and not yet terminating, even if they were replaced since
\* (gc.rs:22-31, 99-116).
GcSpares ==
  [][todo' # todo =>
       \A k \in Keys : objects'[k] # objects[k] =>
         k \in InScope(scope) /\ objects[k].uid \in orphans]_vars

\* When it returns Ok, every one of those is gone or terminating.
GcThorough ==
  gc = "Ok" => \A k \in Live : objects[k].uid \in orphans => objects[k].deleting

\* Unchanged: the resource is as wanted and the call wrote nothing, whoever
\* wrote between the GET and the apply (resources.rs:29-30).
EnsureReports ==
  [][task = "ensure_resource" /\ result' = "Unchanged" /\ task' = "idle" =>
       /\ clock' = clock
       /\ Exists(place) /\ objects[place].data = Want]_vars

\* A wait ends once what it waits for is there and stays, whatever errors it met.
Awaited == IF task = "wait_for_resources" THEN Live # {}
           ELSE Exists(place) /\ objects[place].data = Want
WaitReturns == task \in Polling /\ Awaited ~> task \notin Polling \/ ~Awaited

\* What the reader knows of k, and then comes to know of it, in order: from the
\* channel, from the message about to be sent and from the events not taken yet.
\* A word is {} where nothing is said of k.
Word(messages, k) ==
  {Learn(mirror, m)[k] : m \in {x \in ToSet(messages) : x.type = "Signal" \/ x.key = k}}
Words(k) ==
  <<{mirror[k]}>> \o [i \in DOMAIN channel |-> Word(<<channel[i]>>, k)]
    \o <<Word(sending, k)>> \o [i \in DOMAIN stream |-> Word(Messages(stream[i]), k)]

\* The last thing said of k is v.
LastWord(k, v) ==
  \E i \in DOMAIN Words(k) :
    Words(k)[i] = {v} /\ \A j \in DOMAIN Words(k) : j > i => Words(k)[j] = {}

\* While the task runs, a reader that receives all that is on its way knows the
\* latest version of every selected object, and, of watch_events, that the
\* others are gone (watcher.rs:215-221).
WatchFaithful ==
  watcher = "running" /\ open =>
    \A k \in Keys :
      IF Selected(objects[k]) THEN LastWord(k, objects[k].rv)
      ELSE mode = "events" => LastWord(k, 0)

\* `The task shuts down automatically when all receivers are dropped'
\* (watcher.rs:80-81, 146-147, 228-229).
TaskShutsDown == ~open ~> watcher = "ended"

\* `The resource existed but differed from the desired state; SSA corrected it'
\* (resources.rs:27): an ensure_resource that says so has written.
UpdatedWrote ==
  [][task = "ensure_resource" /\ result' \in {"Created", "Updated"} /\ task' = "idle"
       => clock' # clock]_vars

\* `re-observed during a watch restart' (watcher.rs:219-220): the task outlives
\* the errors of the watch.
OutlivesErrors == open => watcher # "ended"
=============================================================================
