----------------------- MODULE ExternalWatcher_proofs -----------------------
(***************************************************************************)
(* Proofs about ExternalWatcher: nothing is lost on the way to the         *)
(* consumer, and every event fits what it was told before.                 *)
(***************************************************************************)
EXTENDS ExternalWatcher, TLAPS

-----------------------------------------------------------------------------
(***************************************************************************)
(* The backoff.                                                            *)
(***************************************************************************)

\* The powers that backoff_wait can reach, one by one: the provers know 2^3 but
\* not 2^k.
LEMMA PowersOfTwo == \A k \in 0 .. 30 : 2 ^ k \in Nat /\ 2 ^ k >= 1
<1> DEFINE power == [k \in 0 .. 30 |-> 2 ^ k]
<1>1. /\ power[0] = 1 /\ power[1] = 2 /\ power[2] = 4 /\ power[3] = 8
      /\ power[4] = 16 /\ power[5] = 32 /\ power[6] = 64 /\ power[7] = 128
      /\ power[8] = 256 /\ power[9] = 512 /\ power[10] = 1024
      /\ power[11] = 2048 /\ power[12] = 4096 /\ power[13] = 8192
      /\ power[14] = 16384 /\ power[15] = 32768 /\ power[16] = 65536
      /\ power[17] = 131072 /\ power[18] = 262144 /\ power[19] = 524288
      /\ power[20] = 1048576 /\ power[21] = 2097152 /\ power[22] = 4194304
      /\ power[23] = 8388608 /\ power[24] = 16777216 /\ power[25] = 33554432
      /\ power[26] = 67108864 /\ power[27] = 134217728
      /\ power[28] = 268435456 /\ power[29] = 536870912
      /\ power[30] = 1073741824
  OBVIOUS
<1>2. \A k \in 0 .. 30 : power[k] = 2 ^ k
  OBVIOUS
<1> HIDE DEF power
<1>3. \A k \in 0 .. 30 :
        k \in {0, 1, 2, 3, 4, 5, 6, 7, 8, 9, 10, 11, 12, 13, 14, 15, 16, 17, 18,
               19, 20, 21, 22, 23, 24, 25, 26, 27, 28, 29, 30}
  OBVIOUS
<1>4. \A k \in 0 .. 30 : power[k] \in Nat /\ power[k] >= 1
  BY <1>1, <1>3
<1> QED BY <1>2, <1>4, Zenon

LEMMA BackoffInRange == \A n \in Nat : Backoff(n) \in Interval .. MaxBackoff
<1> TAKE n \in Nat
<1> DEFINE k == Smaller(n, 30)
           power == 2 ^ k
<1>1. k \in 0 .. 30
  BY DEF Smaller
<1> HIDE DEF k
<1>2. power \in Nat /\ power >= 1
  BY <1>1, PowersOfTwo
<1>3. Backoff(n) = Smaller(Interval * power, MaxBackoff)
  BY DEF Backoff, k
<1> HIDE DEF power
<1>4. Interval \in Nat /\ MaxBackoff \in Nat /\ MaxBackoff >= Interval
  BY WatchAssumption
<1>5. Interval * power \in Nat /\ Interval * power >= Interval
  BY <1>2, <1>4
<1> QED BY <1>3, <1>4, <1>5 DEF Smaller

-----------------------------------------------------------------------------
(***************************************************************************)
(* Types.                                                                  *)
(***************************************************************************)

\* What a finished listing found.
Found == [p \in Paths |-> IF p \in Keys THEN listing[p] ELSE Absent]

LEMMA KeysArePaths == TypeOK => Keys \subseteq Paths
<1>1. (CHOOSE p \in Paths : TRUE) \in Paths
  BY WatchAssumption
<1> QED BY <1>1 DEF Keys

LEMMA FoundType ==
  ASSUME TypeOK, DOMAIN listing = Keys
  PROVE  Found \in [Paths -> Tags \cup {Absent}]
BY KeysArePaths DEF TypeOK, Found

\* Listed, with its LET and its IF taken apart.
LEMMA ListedCases ==
  ASSUME Listed
  PROVE  /\ at = "Listing" /\ DOMAIN listing = Keys /\ at' = "Sending"
         /\ \/ /\ source = "http"
               /\ pending' = HttpDiff(known, Found) /\ known' = Found
            \/ /\ source # "http"
               /\ pending' = Diff(known, Found) /\ known' = Remember(Found)
BY DEF Listed, Found, HttpRemember

LEMMA TypeInit == Init => TypeOK
BY WatchAssumption DEF Init, TypeOK, Nothing, Unread, Events

LEMMA TypeStep == TypeOK /\ [Next]_vars => TypeOK'
<1> SUFFICES ASSUME TypeOK, [Next]_vars PROVE TypeOK'
  OBVIOUS
<1> USE DEF TypeOK
<1>1. CASE UNCHANGED vars
  BY <1>1 DEF vars
<1>2. ASSUME NEW p \in Keys, Change(p) PROVE TypeOK'
  <2>1. p \in Paths
    BY KeysArePaths
  <2>2. store' \in [Paths -> Tags \cup {Absent}]
    BY <1>2, <2>1 DEF Change
  <2>3. changes' \in 0 .. MaxChanges
    BY <1>2, WatchAssumption DEF Change
  <2> QED BY <1>2, <2>2, <2>3 DEF Change
<1>3. ASSUME NEW p \in Keys, Read(p) PROVE TypeOK'
  <2>1. p \in Paths
    BY KeysArePaths
  <2>2. /\ DOMAIN listing' = DOMAIN listing \cup {p}
        /\ \A q \in DOMAIN listing' :
             listing'[q] = IF q = p THEN store[p] ELSE listing[q]
    BY <1>3 DEF Read
  <2>3. /\ DOMAIN listing' \subseteq Paths
        /\ \A q \in DOMAIN listing' : listing'[q] \in Tags \cup {Absent}
    BY <2>1, <2>2
  <2> QED BY <1>3, <2>3 DEF Read
<1>4. CASE Listed
  <2>1. Found \in [Paths -> Tags \cup {Absent}]
    BY <1>4, FoundType, ListedCases
  <2>2. /\ known' \in [Paths -> Tags \cup {Absent}]
        /\ source = "store" => \A p \in Paths : known'[p] # NoETag
    BY <1>4, <2>1, ListedCases, WatchAssumption DEF Remember
  <2>3. pending' \subseteq Events /\ at' = "Sending"
    BY <1>4, ListedCases DEF Diff, HttpDiff
  <2>4. DOMAIN listing' = {} /\ errors' = 0
    BY <1>4 DEF Listed, Unread
  <2> QED BY <1>4, <2>2, <2>3, <2>4 DEF Listed
<1>5. CASE Send
  <2>1. PICK e \in pending : pending' = pending \ {e} /\ channel' = Append(channel, e)
    BY <1>5 DEF Send, NextEvents
  <2>2. channel' \in Seq(Events) /\ Len(channel') <= Capacity
    BY <1>5, <2>1, WatchAssumption DEF Send
  <2> QED BY <1>5, <2>1, <2>2 DEF Send
<1>6. CASE SendFails
  BY <1>6 DEF SendFails
<1>7. CASE AllSent
  BY <1>7, WatchAssumption DEF AllSent
<1>8. CASE Wake
  BY <1>8 DEF Wake
<1>9. CASE PollFails
  <2>1. wait' \in Interval .. MaxBackoff
    BY <1>9, BackoffInRange DEF PollFails
  <2>2. failures' \in 0 .. MaxFailures
    BY <1>9, WatchAssumption DEF PollFails
  <2> QED BY <1>9, <2>1, <2>2 DEF PollFails, Unread
<1>10. CASE Receive
  <2>1. /\ channel' \in Seq(Events) /\ Len(channel') <= Capacity
        /\ Head(channel) \in Events
    BY <1>10, WatchAssumption DEF Receive
  <2>2. Head(channel).path \in Paths /\ Head(channel).tag \in Tags \cup {Absent}
    BY <2>1 DEF Events
  <2>3. mirror' \in [Paths -> Tags \cup {Absent}]
    BY <1>10, <2>2 DEF Receive, Applied
  <2> QED BY <1>10, <2>1, <2>3 DEF Receive
<1>11. CASE DropReceiver
  <2>1. channel' \in Seq(Events) /\ Len(channel') <= Capacity
    BY <1>11, WatchAssumption, Len(<<>>) = 0 DEF DropReceiver
  <2> QED BY <1>11, <2>1 DEF DropReceiver
<1>12. CASE Abort
  BY <1>12 DEF Abort, Unread
<1> QED
  BY <1>1, <1>2, <1>3, <1>4, <1>5, <1>6, <1>7, <1>8, <1>9, <1>10, <1>11, <1>12
     DEF Next, Task

\* Every variable has its type: what the task remembers of a store are tags, a
\* full channel is not overrun, and each sleep is between the interval and the
\* ceiling however many polls have failed (watcher.rs:141-148).
THEOREM TypeCorrect == Spec => []TypeOK
BY TypeInit, TypeStep, PTL DEF Spec

-----------------------------------------------------------------------------
(***************************************************************************)
(* Nothing is lost.                                                        *)
(***************************************************************************)

\* A poll makes at most one event per object.
OnePerPath == \A e, f \in pending : e.path = f.path => e = f

WatchInv == TypeOK /\ OnePerPath /\ NothingLost

LEMMA OnePerPathStep == TypeOK /\ OnePerPath /\ [Next]_vars => OnePerPath'
<1> SUFFICES ASSUME TypeOK, OnePerPath, [Next]_vars PROVE OnePerPath'
  OBVIOUS
<1>1. CASE pending' \subseteq pending
  BY <1>1 DEF OnePerPath
<1>2. CASE Listed
  <2> SUFFICES ASSUME NEW e \in pending', NEW f \in pending', e.path = f.path
               PROVE  e = f
    BY DEF OnePerPath
  <2>1. e \in Events /\ f \in Events /\ e.tag = f.tag
    BY <1>2, ListedCases DEF Diff, HttpDiff
  <2>2. e.kind = f.kind
    BY <1>2, <2>1, ListedCases DEF Diff, HttpDiff, Events, Kinds
  <2> QED BY <2>1, <2>2 DEF Events
<1>3. Listed \/ pending' \subseteq pending
  BY DEF Next, Task, vars, TypeOK, Change, Read, Send, NextEvents, SendFails,
         AllSent, Wake, PollFails, Receive, DropReceiver, Abort
<1> QED BY <1>1, <1>2, <1>3

\* The channel is a queue: what is appended is the last, and taking the first
\* event into the mirror leaves what will have been told as it was.
LEMMA ToldBeforeAppend ==
  ASSUME TypeOK, NEW e, channel' = Append(channel, e), UNCHANGED mirror,
         NEW n \in 0 .. Len(channel), NEW p, NEW t, Told(n, p, t)'
  PROVE  Told(n, p, t)
<1>1. \A i \in 1 .. n : channel'[i] = channel[i]
  BY DEF TypeOK
<1> QED BY <1>1 DEF Told

LEMMA ToldAfterAppend ==
  ASSUME TypeOK, NEW e \in Events, channel' = Append(channel, e),
         UNCHANGED mirror, NEW p, NEW t, Told(Len(channel), p, t)'
  PROVE  IF e.path = p THEN e.tag = t ELSE Told(Len(channel), p, t)
<1> DEFINE n == Len(channel)
<1>1. /\ channel \in Seq(Events) /\ n \in Nat /\ Len(channel') = n + 1
      /\ channel'[n + 1] = e
      /\ \A i \in 1 .. n : channel'[i] = channel[i]
  BY DEF TypeOK
<1>2. CASE e.path = p
  BY <1>1, <1>2 DEF Told
<1>3. CASE e.path # p
  <2>1. CASE /\ \A i \in 1 .. n + 1 : channel'[i].path # p
             /\ mirror'[p] = t
    BY <1>1, <1>3, <2>1 DEF Told
  <2>2. ASSUME NEW i \in 1 .. n + 1,
               /\ channel'[i].path = p /\ channel'[i].tag = t
               /\ \A j \in 1 .. n + 1 : j > i => channel'[j].path # p
        PROVE  Told(n, p, t)
    <3>1. i \in 1 .. n
      BY <1>1, <1>3, <2>2
    <3>2. \A j \in 1 .. n : j > i => channel[j].path # p
      BY <1>1, <2>2
    <3>3. channel[i].path = p /\ channel[i].tag = t
      BY <1>1, <2>2, <3>1
    <3> QED BY <3>1, <3>2, <3>3 DEF Told
  <2> QED BY <1>1, <1>3, <2>1, <2>2 DEF Told
<1> QED BY <1>2, <1>3

LEMMA ToldAfterReceive ==
  ASSUME TypeOK, Receive, NEW n \in 0 .. Len(channel) - 1,
         NEW p \in Paths, NEW t, Told(n, p, t)'
  PROVE  Told(n + 1, p, t)
<1>1. /\ channel \in Seq(Events) /\ channel # <<>>
      /\ Len(channel) \in Nat /\ Len(channel) >= 1
      /\ Len(channel') = Len(channel) - 1
      /\ \A i \in 1 .. n : channel'[i] = channel[i + 1]
      /\ Head(channel) = channel[1] /\ channel[1] \in Events
  BY DEF Receive, TypeOK
<1>2. mirror'[p] = IF channel[1].path = p THEN channel[1].tag ELSE mirror[p]
  BY <1>1 DEF Receive, Applied, TypeOK
<1>3. ASSUME NEW i \in 1 .. n,
             /\ channel'[i].path = p /\ channel'[i].tag = t
             /\ \A j \in 1 .. n : j > i => channel'[j].path # p
      PROVE  Told(n + 1, p, t)
  <2>1. /\ i + 1 \in 1 .. n + 1
        /\ channel[i + 1].path = p /\ channel[i + 1].tag = t
    BY <1>1, <1>3
  <2>2. ASSUME NEW j \in 1 .. n + 1, j > i + 1
        PROVE  channel[j].path # p
    <3>1. j - 1 \in 1 .. n /\ j - 1 > i /\ (j - 1) + 1 = j
      BY <1>1, <2>2
    <3> QED BY <1>1, <1>3, <3>1
  <2> QED BY <2>1, <2>2 DEF Told
<1>4. ASSUME \A i \in 1 .. n : channel'[i].path # p, mirror'[p] = t
      PROVE  Told(n + 1, p, t)
  <2>1. ASSUME NEW j \in 1 .. n + 1, j > 1
        PROVE  channel[j].path # p
    <3>1. j - 1 \in 1 .. n /\ (j - 1) + 1 = j
      BY <1>1, <2>1
    <3> QED BY <1>1, <1>4, <3>1
  <2>2. CASE channel[1].path = p
    BY <1>1, <1>2, <1>4, <2>1, <2>2 DEF Told
  <2>3. CASE channel[1].path # p
    BY <1>1, <1>2, <1>4, <2>1, <2>3 DEF Told
  <2> QED BY <2>2, <2>3
<1> QED BY <1>3, <1>4 DEF Told

\* What a poll does not report, it knew before.
LEMMA UnreportedIsKnown ==
  ASSUME TypeOK, Listed, NEW p \in Paths, \A e \in pending' : e.path # p
  PROVE  known'[p] = known[p]
<1>1. Found[p] \in Tags \cup {Absent} /\ known[p] \in Tags \cup {Absent}
  BY FoundType, ListedCases DEF TypeOK
<1>2. PICK added, modified, removed \in Events :
        /\ added.kind = "Added" /\ modified.kind = "Modified" /\ removed.kind = "Removed"
        /\ \A e \in {added, modified, removed} : e.path = p /\ e.tag = Found[p]
  <2> DEFINE event(k) == [kind |-> k, path |-> p, tag |-> Found[p]]
  <2>1. \A k \in Kinds : event(k) \in Events
    BY <1>1 DEF Events
  <2> QED BY <2>1 DEF Kinds
<1>3. {added, modified, removed} \cap pending' = {}
  BY <1>2
<1>6. CASE source = "http"
  <2>1. pending' = HttpDiff(known, Found) /\ known' = Found
    BY <1>6, ListedCases
  <2>2. NotModified(known, Found, p) \/ (known[p] = Absent /\ Found[p] = Absent)
    BY <1>2, <1>3, <2>1 DEF HttpDiff
  <2> QED BY <2>1, <2>2 DEF NotModified
<1>7. CASE source # "http"
  <2>1. pending' = Diff(known, Found) /\ known' = Remember(Found)
    BY <1>7, ListedCases
  <2>2. Found[p] = known[p]
    BY <1>2, <1>3, <2>1 DEF Diff
  <2>3. known[p] # NoETag
    BY <1>7, WatchAssumption DEF TypeOK
  <2> QED BY <2>1, <2>2, <2>3 DEF Remember
<1> QED BY <1>6, <1>7

\* A poll that finishes has sent all of the poll before: the last word on an
\* object is a new event, or it stays what it was.
LEMMA WordAfterPoll ==
  ASSUME TypeOK, Listed, NEW p \in Paths, NEW t, LastWord(p, t)'
  PROVE  \/ /\ t = Found[p]
            /\ known'[p] = t \/ (source # "http" /\ t = NoETag)
         \/ LastWord(p, t) /\ known'[p] = known[p]
<1>1. pending = {}
  BY DEF TypeOK, Listed
<1>2. CASE \E e \in pending' : e.path = p
  <2>1. PICK e \in pending' : e.path = p /\ e.tag = t
    BY <1>2 DEF LastWord
  <2>2. t = Found[p]
    BY <2>1, ListedCases DEF Diff, HttpDiff
  <2> QED BY <2>2, ListedCases DEF Remember
<1>3. CASE \A e \in pending' : e.path # p
  <2>1. Told(Len(channel), p, t)'
    BY <1>3 DEF LastWord
  <2>2. Told(Len(channel), p, t)
    BY <2>1 DEF Told, Listed
  <2> QED BY <1>1, <1>3, <2>2, UnreportedIsKnown DEF LastWord
<1> QED BY <1>2, <1>3

\* No other step changes the last word as long as somebody listens.
LEMMA WordKept ==
  ASSUME TypeOK, OnePerPath, [Next]_vars, ~Listed, Watching'
  PROVE  /\ Watching /\ known' = known
         /\ \A p \in Paths : \A t : LastWord(p, t)' => LastWord(p, t)
<1>1. ASSUME UNCHANGED <<pending, channel, mirror>>
      PROVE  \A p \in Paths : \A t : LastWord(p, t)' => LastWord(p, t)
  BY <1>1 DEF LastWord, Told
<1>2. CASE UNCHANGED vars
  BY <1>1, <1>2 DEF vars, Watching
<1>3. CASE \E p \in Keys : Change(p) \/ Read(p)
  BY <1>1, <1>3 DEF Change, Read, Watching
<1>4. CASE AllSent \/ Wake \/ PollFails
  BY <1>1, <1>4 DEF AllSent, Wake, PollFails, Watching
<1>5. CASE SendFails \/ DropReceiver \/ Abort
  BY <1>5 DEF SendFails, DropReceiver, Abort, Watching
<1>6. CASE Send
  <2>1. PICK e \in pending : pending' = pending \ {e} /\ channel' = Append(channel, e)
    BY <1>6 DEF Send, NextEvents
  <2> SUFFICES ASSUME NEW p \in Paths, NEW t, LastWord(p, t)'
               PROVE  LastWord(p, t)
    BY <1>6 DEF Send, Watching
  <2>2. CASE \E f \in pending' : f.path = p
    BY <2>1, <2>2 DEF LastWord
  <2>3. CASE ~ \E f \in pending' : f.path = p
    <3>1. Told(Len(channel), p, t)' /\ e \in Events
      BY <2>3 DEF LastWord, TypeOK
    <3>2. IF e.path = p THEN e.tag = t ELSE Told(Len(channel), p, t)
      BY <1>6, <2>1, <3>1, ToldAfterAppend DEF Send
    <3> QED BY <2>1, <2>3, <3>2 DEF LastWord
  <2> QED BY <2>2, <2>3
<1>7. CASE Receive
  <2>1. PICK n \in 0 .. Len(channel) - 1 : n + 1 = Len(channel) /\ n = Len(channel')
    <3>1. /\ Len(channel) - 1 \in 0 .. Len(channel) - 1
          /\ Len(channel') = Len(channel) - 1
      BY <1>7 DEF Receive, TypeOK
    <3> QED BY <3>1
  <2>2. ASSUME NEW p \in Paths, NEW t, Told(Len(channel), p, t)'
        PROVE  Told(Len(channel), p, t)
    <3>1. Told(n, p, t)'
      BY <2>1, <2>2 DEF Told
    <3> QED BY <1>7, <2>1, <3>1, ToldAfterReceive
  <2> QED BY <1>7, <2>2 DEF LastWord, Receive, Watching
<1> QED BY <1>2, <1>3, <1>4, <1>5, <1>6, <1>7 DEF Next, Task

LEMMA WatchStep == WatchInv /\ [Next]_vars => WatchInv'
<1> SUFFICES ASSUME WatchInv, [Next]_vars, Watching',
                    NEW p \in Paths, NEW t \in Tags \cup {Absent}, LastWord(p, t)'
             PROVE  known'[p] = t \/ t = NoETag
  BY TypeStep, OnePerPathStep DEF WatchInv, NothingLost
<1>1. CASE Listed
  BY <1>1, WordAfterPoll DEF WatchInv, NothingLost, Watching, Listed
<1>2. CASE ~Listed
  BY <1>2, WordKept DEF WatchInv, NothingLost
<1> QED BY <1>1, <1>2

LEMMA WatchInit == Init => WatchInv
<1>1. Init => OnePerPath /\ NothingLost
  BY Len(<<>>) = 0
     DEF Init, OnePerPath, NothingLost, LastWord, Told, Nothing
<1> QED BY <1>1, TypeInit DEF WatchInv

\* The events under way, in the order in which they are applied, lead the mirror
\* to what the last successful poll listed (watcher.rs:190-234), whatever fails,
\* times out or changes meanwhile, for any channel, number of objects and tags.
THEOREM NoEventIsLost == Spec => []NothingLost
<1>1. WatchInv => NothingLost
  BY DEF WatchInv
<1> QED BY <1>1, WatchInit, WatchStep, PTL DEF Spec

-----------------------------------------------------------------------------
(***************************************************************************)
(* Every event fits.                                                       *)
(*                                                                         *)
(* With tags on every object of a store, what is remembered of an object   *)
(* is the last word on it, exactly.  Each event was an addition if and     *)
(* only if nothing was known, and each stays so in its place in the queue. *)
(***************************************************************************)
AllTagged ==
  source = "store" =>
    /\ \A p \in Paths : store[p] # NoETag
    /\ \A p \in DOMAIN listing : listing[p] # NoETag

KnownExactly ==
  Watching => \A p \in Paths : \A t : LastWord(p, t) => known[p] = t

\* The event e comes after the first n of the channel.
FitsAfter(n, e) == \A t : Told(n, e.path, t) => (e.kind = "Added" <=> t = Absent)

SentFit == \A n \in 0 .. Len(channel) - 1, e \in Events :
             e = channel[n + 1] => FitsAfter(n, e)

PendingFit == open => \A e \in pending : FitsAfter(Len(channel), e)

FitInv == TypeOK /\ OnePerPath /\ AllTagged /\ KnownExactly /\ SentFit /\ PendingFit

LEMMA AllTaggedStep ==
  ASSUME ~TagsMissing PROVE TypeOK /\ AllTagged /\ [Next]_vars => AllTagged'
<1> SUFFICES ASSUME TypeOK, AllTagged, [Next]_vars, source = "store"
             PROVE  /\ \A p \in Paths : store'[p] # NoETag
                    /\ \A p \in DOMAIN listing' : listing'[p] # NoETag
  BY DEF AllTagged, Next, Task, vars, Change, Read, Listed, Send, SendFails, AllSent,
         Wake, PollFails, Receive, DropReceiver, Abort
<1>1. ASSUME NEW q \in Keys, Change(q) PROVE \A p \in Paths : store'[p] # NoETag
  <2>1. PICK t \in Tags \cup {Absent} :
          t # NoETag /\ store' = [store EXCEPT ![q] = t]
    BY <1>1 DEF Change
  <2> QED BY <2>1 DEF AllTagged, TypeOK
<1>2. ASSUME NEW q \in Keys, Read(q)
      PROVE  \A p \in DOMAIN listing' : listing'[p] # NoETag
  <2>1. /\ DOMAIN listing' = DOMAIN listing \cup {q}
        /\ \A p \in DOMAIN listing' :
             listing'[p] = IF p = q THEN store[q] ELSE listing[p]
    BY <1>2 DEF Read
  <2>2. q \in Paths
    BY KeysArePaths
  <2> QED BY <2>1, <2>2 DEF AllTagged
<1>3. (\E q \in Keys : Change(q)) \/ store' = store
  BY DEF Next, Task, vars, Read, Listed, Send, SendFails, AllSent, Wake, PollFails,
         Receive, DropReceiver, Abort
<1>4. (\E q \in Keys : Read(q)) \/ listing' = listing \/ listing' = Unread
  BY DEF Next, Task, vars, Change, Listed, Send, SendFails, AllSent, Wake, PollFails,
         Receive, DropReceiver, Abort
<1> QED BY <1>1, <1>2, <1>3, <1>4 DEF AllTagged, Unread

LEMMA KnownExactlyStep ==
  TypeOK /\ OnePerPath /\ AllTagged /\ KnownExactly /\ [Next]_vars => KnownExactly'
<1> SUFFICES ASSUME TypeOK, OnePerPath, AllTagged, KnownExactly, [Next]_vars,
                    Watching', NEW p \in Paths, NEW t, LastWord(p, t)'
             PROVE  known'[p] = t
  BY DEF KnownExactly
<1>1. CASE Listed
  <2>1. LastWord(p, t) /\ Watching => known[p] = t
    BY DEF KnownExactly
  <2>2. source # "http" => Found[p] # NoETag
    <3>1. source # "http" => source = "store"
      BY WatchAssumption DEF TypeOK
    <3> QED BY <1>1, <3>1, ListedCases, WatchAssumption DEF AllTagged, Found
  <2> QED BY <1>1, <2>1, <2>2, WordAfterPoll DEF Watching, Listed
<1>2. CASE ~Listed
  BY <1>2, WordKept DEF KnownExactly
<1> QED BY <1>1, <1>2

LEMMA SentFitStep ==
  TypeOK /\ SentFit /\ PendingFit /\ [Next]_vars => SentFit'
<1> SUFFICES ASSUME TypeOK, SentFit, PendingFit, [Next]_vars,
                    NEW n \in 0 .. Len(channel') - 1, NEW e \in Events,
                    e = channel'[n + 1], NEW t, Told(n, e.path, t)'
             PROVE  e.kind = "Added" <=> t = Absent
  BY DEF SentFit, FitsAfter
<1>1. ASSUME FitsAfter(n, e), Told(n, e.path, t)
      PROVE  e.kind = "Added" <=> t = Absent
  BY <1>1 DEF FitsAfter
<1>2. CASE UNCHANGED <<channel, mirror>>
  <2>1. FitsAfter(n, e)
    BY <1>2 DEF SentFit
  <2>2. Told(n, e.path, t)
    BY <1>2 DEF Told
  <2> QED BY <1>1, <2>1, <2>2
<1>3. CASE Send
  <2>1. PICK f \in pending : channel' = Append(channel, f) /\ f \in Events
    BY <1>3 DEF Send, NextEvents, TypeOK
  <2>2. n \in 0 .. Len(channel) /\ Len(channel) \in Nat
    BY <2>1 DEF TypeOK
  <2>3. UNCHANGED mirror /\ open
    BY <1>3 DEF Send
  <2>4. Told(n, e.path, t)
    BY <2>1, <2>2, <2>3, ToldBeforeAppend
  <2>5. CASE n = Len(channel)
    <3>1. e = f
      BY <2>1, <2>5 DEF TypeOK
    <3>2. FitsAfter(n, e)
      BY <2>1, <2>3, <2>5, <3>1 DEF PendingFit
    <3> QED BY <1>1, <2>4, <3>2
  <2>6. CASE n # Len(channel)
    <3>1. n \in 0 .. Len(channel) - 1 /\ e = channel[n + 1]
      BY <2>1, <2>2, <2>6 DEF TypeOK
    <3>2. FitsAfter(n, e)
      BY <3>1 DEF SentFit
    <3> QED BY <1>1, <2>4, <3>2
  <2> QED BY <2>5, <2>6
<1>4. CASE Receive
  <2>1. /\ n \in 0 .. Len(channel) - 1 /\ n + 1 \in 0 .. Len(channel) - 1
        /\ e = channel[(n + 1) + 1]
    BY <1>4 DEF Receive, TypeOK
  <2>2. e.path \in Paths
    BY DEF Events
  <2>3. Told(n + 1, e.path, t)
    BY <1>4, <2>1, <2>2, ToldAfterReceive
  <2>4. FitsAfter(n + 1, e)
    BY <2>1 DEF SentFit
  <2> QED BY <2>3, <2>4 DEF FitsAfter
<1>5. CASE DropReceiver
  BY <1>5, Len(<<>>) = 0 DEF DropReceiver
<1>6. Send \/ Receive \/ DropReceiver \/ UNCHANGED <<channel, mirror>>
  BY DEF Next, Task, vars, Change, Read, Listed, SendFails, AllSent, Wake, PollFails,
         Abort
<1> QED BY <1>2, <1>3, <1>4, <1>5, <1>6

LEMMA PendingFitStep ==
  TypeOK /\ OnePerPath /\ KnownExactly /\ PendingFit /\ [Next]_vars => PendingFit'
<1> SUFFICES ASSUME TypeOK, OnePerPath, KnownExactly, PendingFit, [Next]_vars,
                    open', NEW e \in pending', NEW t,
                    Told(Len(channel), e.path, t)'
             PROVE  e.kind = "Added" <=> t = Absent
  BY DEF PendingFit, FitsAfter
<1>1. CASE Listed
  <2>1. /\ e \in Events /\ e.path \in Paths
        /\ pending = {} /\ Watching
    <3>1. e \in Events
      BY <1>1, ListedCases DEF Diff, HttpDiff
    <3>2. pending = {} /\ Watching
      BY <1>1 DEF Listed, TypeOK, Watching
    <3> QED BY <3>1, <3>2 DEF Events
  <2>2. Told(Len(channel), e.path, t)
    BY <1>1 DEF Told, Listed
  <2>3. known[e.path] = t
    BY <2>1, <2>2 DEF KnownExactly, LastWord
  <2>4. e.kind \in Kinds /\ (e \in HttpDiff(known, Found) \/ e \in Diff(known, Found))
    BY <1>1, <2>1, ListedCases DEF Events
  <2>5. e.kind = "Added" <=> known[e.path] = Absent
    BY <2>4 DEF Diff, HttpDiff, Kinds
  <2> QED BY <2>3, <2>5
<1>2. CASE Send
  <2>1. PICK f \in pending : pending' = pending \ {f} /\ channel' = Append(channel, f)
    BY <1>2 DEF Send, NextEvents
  <2>2. e.path # f.path /\ f \in Events
    BY <2>1 DEF OnePerPath, TypeOK
  <2>3. Told(Len(channel), e.path, t)
    BY <1>2, <2>1, <2>2, ToldAfterAppend DEF Send
  <2> QED BY <1>2, <2>1, <2>3 DEF PendingFit, FitsAfter, Send
<1>3. CASE Receive
  <2>1. PICK n \in 0 .. Len(channel) - 1 : n + 1 = Len(channel) /\ n = Len(channel')
    <3>1. /\ Len(channel) - 1 \in 0 .. Len(channel) - 1
          /\ Len(channel') = Len(channel) - 1
      BY <1>3 DEF Receive, TypeOK
    <3> QED BY <3>1
  <2>2. e \in pending /\ e.path \in Paths
    BY <1>3 DEF Receive, TypeOK, Events
  <2>3. Told(n, e.path, t)'
    BY <2>1 DEF Told
  <2>4. Told(Len(channel), e.path, t)
    BY <1>3, <2>1, <2>2, <2>3, ToldAfterReceive
  <2>5. FitsAfter(Len(channel), e)
    BY <1>3, <2>2 DEF PendingFit, Receive
  <2> QED BY <2>4, <2>5 DEF FitsAfter
<1>4. CASE UNCHANGED <<channel, mirror, open>> /\ pending' \subseteq pending
  BY <1>4 DEF PendingFit, FitsAfter, Told
<1>5. \/ Listed \/ Send \/ Receive
      \/ UNCHANGED <<channel, mirror, open>> /\ pending' \subseteq pending
  BY DEF Next, Task, vars, Change, Read, SendFails, AllSent, Wake, PollFails,
         DropReceiver, Abort
<1> QED BY <1>1, <1>2, <1>3, <1>4, <1>5

LEMMA FitInit == ASSUME ~TagsMissing PROVE Init => FitInv
<1>1. Init => AllTagged
  BY WatchAssumption DEF Init, AllTagged, Nothing, Unread
<1>2. Init => KnownExactly
  BY Len(<<>>) = 0 DEF Init, KnownExactly, LastWord, Told
<1>3. Init => OnePerPath /\ SentFit /\ PendingFit
  BY Len(<<>>) = 0 DEF Init, OnePerPath, SentFit, PendingFit
<1> QED BY <1>1, <1>2, <1>3, TypeInit DEF FitInv

\* An object is added when the consumer does not have it, modified or removed
\* when it has (watcher.rs:24-31), if the objects of a store have tags: the
\* poller forgets those without (store.rs:151-155) and adds them once more.
THEOREM EveryEventFits == ASSUME ~TagsMissing PROVE Spec => EventsFit
<1>1. FitInv /\ [Next]_vars => FitInv'
  BY TypeStep, OnePerPathStep, AllTaggedStep, KnownExactlyStep, SentFitStep,
     PendingFitStep DEF FitInv
<1>2. ASSUME FitInv, NEW e \in Events, channel # <<>>, e = Head(channel)
      PROVE  e.kind = "Added" <=> mirror[e.path] = Absent
  <2>1. 0 \in 0 .. Len(channel) - 1 /\ e = channel[0 + 1]
    BY <1>2 DEF FitInv, TypeOK
  <2>2. Told(0, e.path, mirror[e.path])
    BY DEF Told
  <2>3. FitsAfter(0, e)
    BY <1>2, <2>1 DEF FitInv, SentFit
  <2> QED BY <2>2, <2>3 DEF FitsAfter
<1>3. FitInv => (\A e \in Events :
                   open /\ open' /\ channel # <<>> /\ channel' = Tail(channel)
                     /\ e = Head(channel)
                     => (e.kind = "Added") = (mirror[e.path] = Absent))
  BY <1>2, Zenon
<1> QED BY <1>1, <1>3, FitInit, PTL DEF Spec, EventsFit
=============================================================================
