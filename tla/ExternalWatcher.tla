--------------------------- MODULE ExternalWatcher ---------------------------
(***************************************************************************)
(* watch_external_with_config driving an ObjectStorePoller or an           *)
(* HttpPoller (crates/koprs-external/src/watcher.rs, store.rs, http.rs): a *)
(* task polls an object store, or one HTTP endpoint, works out what        *)
(* changed since the last poll and sends it through a bounded channel to a *)
(* consumer that keeps a mirror of the source.  The source changes at any  *)
(* time, also while it is being listed; a poll may fail or time out        *)
(* half-way; the receiver may be dropped.                                  *)
(*                                                                         *)
(* Time is left out except for the length of each sleep.                   *)
(***************************************************************************)
EXTENDS Integers, Sequences, FiniteSets

CONSTANTS
  Sources,        \* the pollers to choose from
  Paths,          \* keys of the object store; an HTTP endpoint has one
  ETags,          \* entity tags, compared only for equality; for an endpoint
                  \* without them its Last-Modified dates
  NoETag,         \* the source gives the object no tag
  Absent,         \* there is no such object
  TagsMissing,    \* objects of the store may have no tag
  Interval,       \* WatchConfig.interval
  MaxBackoff,     \* WatchConfig.max_backoff
  Capacity,       \* of the channel
  MaxChanges,     \* bound: changes of the store
  MaxFailures     \* bound: polls that fail

ASSUME WatchAssumption ==
  /\ Sources \subseteq {"store", "http"}
  /\ Paths # {}
  /\ NoETag \notin ETags /\ Absent \notin ETags \cup {NoETag}
  /\ TagsMissing \in BOOLEAN
  /\ {Interval, MaxBackoff, MaxChanges, MaxFailures} \subseteq Nat
  /\ Capacity \in Nat \ {0}
  /\ Interval > 0 /\ MaxBackoff >= Interval

VARIABLES
  source,    \* the poller; no step changes it
  store,     \* the object store or endpoint: the tag of each object
  at,        \* where the task is
  listing,   \* what the current poll has read so far
  known,     \* ObjectStorePoller.known; HttpPoller.seen and .last_etag
  pending,   \* events of the last poll still to be sent
  errors,    \* consecutive_errors
  wait,      \* the length of the current sleep
  channel,   \* events sent, not received
  open,      \* the receiver exists
  mirror,    \* the consumer's picture of the store
  changes, failures    \* counters of the bounds

vars == <<source, store, at, listing, known, pending, errors, wait, channel, open,
          mirror, changes, failures>>

Tags    == ETags \cup {NoETag}
Kinds   == {"Added", "Modified", "Removed"}
Events  == [kind : Kinds, path : Paths, tag : Tags \cup {Absent}]
Unread  == [p \in {} |-> Absent]
Nothing == [p \in Paths |-> Absent]

TypeOK ==
  /\ source \in Sources
  /\ store \in [Paths -> Tags \cup {Absent}]
  /\ at \in {"Listing", "Sending", "Sleeping", "Ended"}
  /\ DOMAIN listing \subseteq Paths
  /\ \A p \in DOMAIN listing : listing[p] \in Tags \cup {Absent}
  /\ known \in [Paths -> Tags \cup {Absent}]
  /\ source = "store" => \A p \in Paths : known[p] # NoETag
  /\ pending \subseteq Events
  /\ pending # {} => at = "Sending"
  /\ errors \in Nat
  /\ wait \in {0} \cup Interval .. MaxBackoff
  /\ channel \in Seq(Events) /\ Len(channel) <= Capacity
  /\ open \in BOOLEAN
  /\ mirror \in [Paths -> Tags \cup {Absent}]
  /\ changes \in 0 .. MaxChanges /\ failures \in 0 .. MaxFailures

Init ==
  /\ source \in Sources
  /\ store = Nothing /\ known = Nothing /\ mirror = Nothing
  /\ at = "Listing"
  /\ listing = Unread
  /\ pending = {} /\ channel = <<>>
  /\ errors = 0 /\ wait = 0
  /\ open = TRUE
  /\ changes = 0 /\ failures = 0

-----------------------------------------------------------------------------
Keys == IF source = "http" THEN {CHOOSE p \in Paths : TRUE} ELSE Paths

\* An object is put, overwritten or deleted.
Change(p) ==
  /\ changes < MaxChanges /\ changes' = changes + 1
  /\ \E t \in Tags \cup {Absent} :
       /\ t = NoETag => TagsMissing \/ source = "http"
       /\ t # store[p] /\ store' = [store EXCEPT ![p] = t]
  /\ UNCHANGED <<source, at, listing, known, pending, errors, wait, channel, open,
                 mirror, failures>>

\* The listing is streamed: each object is read at a moment of its own.  The
\* endpoint is read when it answers the GET.
Read(p) ==
  /\ at = "Listing" /\ p \notin DOMAIN listing
  /\ listing' = [q \in DOMAIN listing \cup {p} |->
                   IF q = p THEN store[p] ELSE listing[q]]
  /\ UNCHANGED <<source, store, at, known, pending, errors, wait, channel, open, mirror,
                 changes, failures>>

\* Seeded faults stand before the definition they replace.
\* Every change is reported as an addition.
DiffAllAdded(k, l) ==
  {e \in Events :
     /\ e.tag = l[e.path]
     /\ CASE e.kind = "Added"    -> l[e.path] # Absent /\ l[e.path] # k[e.path]
          [] e.kind = "Modified" -> FALSE
          [] e.kind = "Removed"  -> k[e.path] # Absent /\ l[e.path] = Absent}

\* The events of a poll that found `l' when it last knew `k'.
Diff(k, l) ==
  {e \in Events :
     /\ e.tag = l[e.path]
     /\ CASE e.kind = "Added"    -> k[e.path] = Absent /\ l[e.path] # Absent
          [] e.kind = "Modified" -> k[e.path] # Absent /\ l[e.path] # Absent
                                      /\ l[e.path] # k[e.path]
          [] e.kind = "Removed"  -> k[e.path] # Absent /\ l[e.path] = Absent}

\* Only objects with a tag are remembered.
Remember(l) == [p \in Paths |-> IF l[p] = NoETag THEN Absent ELSE l[p]]

\* If-None-Match, or If-Modified-Since, is sent with the last tag; the server
\* answers 304 when it still holds.
NotModified(k, l, p) == l[p] # NoETag /\ l[p] = k[p]

\* The first answer is an addition, later ones that are not a 304 modify; a 404
\* removes what was seen.
HttpDiff(k, l) ==
  {e \in Events :
     /\ e.tag = l[e.path]
     /\ ~NotModified(k, l, e.path)
     /\ CASE e.kind = "Added"    -> k[e.path] = Absent /\ l[e.path] # Absent
          [] e.kind = "Modified" -> k[e.path] # Absent /\ l[e.path] # Absent
          [] e.kind = "Removed"  -> k[e.path] # Absent /\ l[e.path] = Absent}

\* A 404 leaves `seen' set.
HttpRememberSeen(k, l) ==
  [p \in Paths |-> IF l[p] = Absent /\ k[p] # Absent THEN NoETag ELSE l[p]]

\* seen and last_etag; a 404 resets both.
HttpRemember(k, l) == l

\* poll returns Ok: the events are worked out without a further await.
Listed ==
  /\ at = "Listing" /\ DOMAIN listing = Keys
  /\ LET found == [p \in Paths |-> IF p \in Keys THEN listing[p] ELSE Absent]
     IN  IF source = "http"
         THEN /\ pending' = HttpDiff(known, found)
              /\ known' = HttpRemember(known, found)
         ELSE /\ pending' = Diff(known, found)
              /\ known' = Remember(found)
  /\ listing' = Unread
  /\ errors' = 0
  /\ at' = "Sending"
  /\ UNCHANGED <<source, store, wait, channel, open, mirror, changes, failures>>

\* The doubling has no ceiling.
BackoffUncapped(n) == Interval * 2 ^ n

\* backoff_wait
Smaller(a, b) == IF a < b THEN a ELSE b
Backoff(n) == Smaller(Interval * 2 ^ Smaller(n, 30), MaxBackoff)

\* A failed poll clears what is known.
PollFailsForgets ==
  /\ at = "Listing"
  /\ failures < MaxFailures /\ failures' = failures + 1
  /\ listing' = Unread
  /\ known' = Nothing
  /\ errors' = errors + 1
  /\ wait' = Backoff(errors')
  /\ at' = "Sleeping"
  /\ UNCHANGED <<source, store, pending, channel, open, mirror, changes>>

\* poll returns Err (for HttpPoller also a status that is neither success, 304
\* nor 404, and a body over the limit), or poll_timeout drops it half-way.
PollFails ==
  /\ at = "Listing"
  /\ failures < MaxFailures /\ failures' = failures + 1
  /\ listing' = Unread
  /\ errors' = errors + 1
  /\ wait' = Backoff(errors')
  /\ at' = "Sleeping"
  /\ UNCHANGED <<source, store, known, pending, channel, open, mirror, changes>>

\* Additions and modifications come before removals, in any order else.
NextEvents ==
  {e \in pending : e.kind = "Removed" => \A f \in pending : f.kind = "Removed"}

\* Events that find the channel full are discarded.
SendOrDiscard ==
  /\ at = "Sending" /\ open
  /\ \E e \in NextEvents :
       /\ pending' = pending \ {e}
       /\ channel' = IF Len(channel) < Capacity THEN Append(channel, e) ELSE channel
  /\ UNCHANGED <<source, store, at, listing, known, errors, wait, open, mirror, changes,
                 failures>>

\* tx.send waits for room.
Send ==
  /\ at = "Sending" /\ open /\ Len(channel) < Capacity
  /\ \E e \in NextEvents :
       pending' = pending \ {e} /\ channel' = Append(channel, e)
  /\ UNCHANGED <<source, store, at, listing, known, errors, wait, open, mirror, changes,
                 failures>>

\* tx.send fails when there is no receiver: the task ends.
SendFails ==
  /\ at = "Sending" /\ ~open /\ pending # {}
  /\ at' = "Ended"
  /\ pending' = {}
  /\ UNCHANGED <<source, store, listing, known, errors, wait, channel, open, mirror,
                 changes, failures>>

AllSent ==
  /\ at = "Sending" /\ pending = {}
  /\ wait' = Interval
  /\ at' = "Sleeping"
  /\ UNCHANGED <<source, store, listing, known, pending, errors, channel, open, mirror,
                 changes, failures>>

Wake ==
  /\ at = "Sleeping"
  /\ at' = "Listing"
  /\ UNCHANGED <<source, store, listing, known, pending, errors, wait, channel, open,
                 mirror, changes, failures>>

-----------------------------------------------------------------------------
\* The consumer (external) applies an event to its mirror.
Applied(m, e) == [m EXCEPT ![e.path] = e.tag]

Receive ==
  /\ open /\ channel # <<>>
  /\ mirror' = Applied(mirror, Head(channel))
  /\ channel' = Tail(channel)
  /\ UNCHANGED <<source, store, at, listing, known, pending, errors, wait, open, changes,
                 failures>>

DropReceiver ==
  /\ open
  /\ open' = FALSE
  /\ channel' = <<>>
  /\ UNCHANGED <<source, store, at, listing, known, pending, errors, wait, mirror,
                 changes, failures>>

\* The caller aborts the task.
Abort ==
  /\ at # "Ended"
  /\ at' = "Ended"
  /\ listing' = Unread /\ pending' = {}
  /\ UNCHANGED <<source, store, known, errors, wait, channel, open, mirror, changes,
                 failures>>

Task == (\E p \in Keys : Read(p)) \/ Listed \/ Send \/ SendFails \/ AllSent \/ Wake

Next ==
  \/ \E p \in Keys : Change(p)
  \/ Task \/ PollFails
  \/ Receive \/ DropReceiver \/ Abort

Spec == Init /\ [][Next]_vars

\* The task is not suspended for ever and the consumer reads what it is sent.
Fairness == WF_vars(Task) /\ WF_vars(Receive)
FairSpec == Spec /\ Fairness

-----------------------------------------------------------------------------
(***************************************************************************)
(* Properties.                                                             *)
(***************************************************************************)

\* What the consumer will have been told of p when it has received the first n
\* events of the channel, and when it has received all there will be.
Told(n, p, t) ==
  \/ \E i \in 1 .. n :
       /\ channel[i].path = p /\ channel[i].tag = t
       /\ \A j \in 1 .. n : j > i => channel[j].path # p
  \/ /\ \A i \in 1 .. n : channel[i].path # p
     /\ mirror[p] = t

LastWord(p, t) ==
  IF \E e \in pending : e.path = p
  THEN \E e \in pending : e.path = p /\ e.tag = t
  ELSE Told(Len(channel), p, t)

Watching == open /\ at # "Ended"

\* The events under way, applied in order, lead the mirror to what the last
\* successful poll listed: no event is lost or overtaken by an older one across
\* failed polls, time-outs and a full channel.  (Objects without a tag are not
\* remembered.)
NothingLost ==
  Watching => \A p \in Paths, t \in Tags \cup {Absent} :
                LastWord(p, t) => known[p] = t \/ t = NoETag

\* Each event fits what the consumer has been told before it: an object is
\* added when it is not there, modified or removed when it is (watcher.rs:24-31).
EventsFit ==
  [][\A e \in Events :
       open /\ open' /\ channel # <<>> /\ channel' = Tail(channel)
         /\ e = Head(channel)
         => (e.kind = "Added") = (mirror[e.path] = Absent)]_vars

\* When the store settles and polls succeed, the mirror becomes the store.
MirrorCatchesUp == <>[](Watching => mirror = store)

\* Objects are reported when they are removed (store.rs:3-5), with or without
\* a tag.
RemovalsReported ==
  \A p \in Paths :
    <>[](store[p] = Absent) => <>[](Watching => mirror[p] = Absent)

\* `Starting at config.interval, doubling each time' (watcher.rs:156-159).
FirstRetryAfterInterval == at = "Sleeping" /\ errors = 1 => wait = Interval

\* `The task shuts down automatically when all receivers are dropped'
\* (watcher.rs:161).
EndsWithoutReceiver == ~open ~> at = "Ended"
=============================================================================
