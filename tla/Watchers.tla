-------------------------------- MODULE Watchers --------------------------------
(***************************************************************************)
(* watch, watch_objects and watch_events: a task takes the events of a      *)
(* watch and sends them, as signals, objects or events, to a channel whose  *)
(* reader keeps a mirror of the objects.  kube-runtime's watch (external)   *)
(* lists first and then reports every write in order; its errors end the    *)
(* task, for try_for_each stops at the first.                               *)
(***************************************************************************)
EXTENDS ApiServer

CONSTANT
  Capacity    \* of the channel

ASSUME CapacityAssumption == Capacity \in Nat \ {0}

VARIABLES
  watcher,    \* the task: "none", "running" or "ended"
  mode,       \* what is sent: "signal", "objects" or "events"
  sending,    \* messages it is about to send, at most one
  channel,    \* messages sent and not yet received
  open,       \* a receiver is left
  mirror      \* versions the reader knows, 0 for none

watcherVars == <<watcher, mode, sending, channel, open, mirror>>

Message == [type : {"Applied", "Deleted", "Signal"}, key : Keys, rv : Nat]

InitWatchers ==
  /\ watcher = "none" /\ mode \in {"signal", "objects", "events"}
  /\ sending = <<>> /\ channel = <<>> /\ open = TRUE
  /\ mirror = [k \in Keys |-> 0]

Bookmark(type) == [type |-> type, key |-> CHOOSE k \in Keys : TRUE, rv |-> 0]

\* The task starts, with or without a label selector; the watch lists.
StartWatch ==
  /\ watcher = "none" /\ watcher' = "running"
  /\ \E w \in {"labelled", "all"} :
       LET listed == {k \in Live : w = "all" \/ Owner \in objects[k].labels}
       IN  /\ watched' = w
           /\ stream' = <<Bookmark("Init")>>
                \o SetToSeq({[type |-> "InitApply", key |-> k, rv |-> objects[k].rv] :
                               k \in listed})
                \o <<Bookmark("InitDone")>>
  /\ UNCHANGED <<mode, sending, channel, open, mirror, objects, clock, held,
                 writes, calls>>

\* Seeded faults stand before the definition they replace.
\* What was there before is not news.
MessagesWithoutInit(e) ==
  CASE e.type = "Apply" -> <<[type |-> "Applied", key |-> e.key, rv |-> e.rv]>>
    [] e.type = "Delete" /\ mode = "events" ->
         <<[type |-> "Deleted", key |-> e.key, rv |-> 0]>>
    [] OTHER -> <<>>

\* Init and InitDone carry no object; only watch_events tells of deletions.
Messages(e) ==
  CASE e.type \in {"Apply", "InitApply"} ->
         <<IF mode = "signal" THEN Bookmark("Signal")
           ELSE [type |-> "Applied", key |-> e.key, rv |-> e.rv]>>
    [] e.type = "Delete" /\ mode = "events" ->
         <<[type |-> "Deleted", key |-> e.key, rv |-> 0]>>
    [] OTHER -> <<>>

TakeEvent ==
  /\ watcher = "running" /\ sending = <<>> /\ stream # <<>>
  /\ sending' = Messages(Head(stream))
  /\ stream' = Tail(stream)
  /\ UNCHANGED <<watcher, mode, channel, open, mirror, objects, clock, watched,
                 held, writes, calls>>

\* A full channel loses the message.
SendOrDrop ==
  /\ watcher = "running" /\ sending # <<>>
  /\ channel' = IF open /\ Len(channel) < Capacity THEN channel \o sending ELSE channel
  /\ sending' = <<>>
  /\ UNCHANGED <<watcher, mode, open, mirror, api>>

\* tx.send(msg).await.ok(): waits for room; without a receiver the message is
\* dropped and the task goes on.
Send ==
  /\ watcher = "running" /\ sending # <<>>
  /\ open => Len(channel) < Capacity
  /\ channel' = IF open THEN channel \o sending ELSE channel
  /\ sending' = <<>>
  /\ UNCHANGED <<watcher, mode, open, mirror, api>>

\* The watch reports an error.
WatchFails ==
  /\ watcher = "running" /\ sending = <<>>
  /\ calls < MaxCalls /\ calls' = calls + 1
  /\ watcher' = "ended"
  /\ stream' = <<>> /\ watched' = "none"
  /\ UNCHANGED <<mode, sending, channel, open, mirror, objects, clock, held, writes>>

\* The reader (external) takes a message; a signal makes it list the objects.
Learn(known, m) ==
  IF m.type = "Signal" THEN [k \in Keys |-> objects[k].rv]
  ELSE [known EXCEPT ![m.key] = m.rv]

Receive ==
  /\ open /\ channel # <<>>
  /\ mirror' = Learn(mirror, Head(channel))
  /\ channel' = Tail(channel)
  /\ UNCHANGED <<watcher, mode, sending, open, api>>

DropReceiver ==
  /\ open /\ watcher # "none"
  /\ open' = FALSE /\ channel' = <<>>
  /\ UNCHANGED <<watcher, mode, sending, mirror, api>>

WatchersNext ==
  StartWatch \/ TakeEvent \/ Send \/ WatchFails \/ Receive \/ DropReceiver
=============================================================================
