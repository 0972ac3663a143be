------------------------------- MODULE Webhook -------------------------------
(***************************************************************************)
(* One process that runs WebhookBuilder::run                               *)
(* (crates/koprs-admission/src/webhook.rs): start-up, readiness, the       *)
(* accept loop, the connections with their time-outs, and the drain.       *)
(*                                                                         *)
(* run, the task that waits for the signal and one task for each           *)
(* connection take turns.  hyper and tokio-rustls are external: modelled   *)
(* from how run configures them.  The process ends when run returns.       *)
(***************************************************************************)
EXTENDS Naturals

CONSTANTS
  Conns,             \* slots for connections; a slot is used again
  Tls,               \* TLS is configured
  HandshakeTimeout,  \* TLS_HANDSHAKE_TIMEOUT
  HeaderTimeout,     \* HEADER_READ_TIMEOUT
  RequestTimeout,    \* .request_timeout(..)
  DrainTimeout       \* DRAIN_TIMEOUT

ASSUME TimeoutsAssumption ==
  /\ Tls \in BOOLEAN
  /\ {HandshakeTimeout, HeaderTimeout, RequestTimeout, DrainTimeout} \subseteq Nat \ {0}

VARIABLES
  phase,     \* where run is
  ready,     \* the AtomicBool behind /readyz
  signal,    \* where the signal task is
  stop,      \* the value in the shutdown watch channel
  paused,    \* the accept loop sleeps after an error
  conn,      \* what each connection waits for
  age,       \* how long its time-out has been running
  watchers,  \* the connections that hold a watcher of the drain
  drained    \* how long the drain has lasted

run == <<phase, ready, signal, stop, paused>>
conns == <<conn, age, watchers>>
vars == <<run, conns, drained>>

Over == {"Returned", "Failed"}
Phases == Over \cup {"Starting",   \* up to the spawn of the signal task
                     "Binding",    \* TcpListener::bind
                     "Serving",    \* the accept loop
                     "Draining"}   \* graceful.shutdown()

\* "Spawned" waits for its task to run, "Idle" has sent nothing of its next
\* request, "Head" and "Body" a part of it; in "Handling" the validator runs.
Stages == {"None", "Spawned", "Handshake", "Idle", "Head", "Body", "Handling"}

\* Seeded faults stand before the definition they replace.
\* The validator's call has no time-out.
LimitBeforeHandling ==
  [s \in {"Handshake", "Idle", "Head"} |->
     IF s = "Handshake" THEN HandshakeTimeout ELSE HeaderTimeout]

\* The time-outs.  Reading a body has none: the request time-out starts when the
\* body has been parsed.
Limit ==
  [s \in {"Handshake", "Idle", "Head", "Handling"} |->
     CASE s = "Handshake"        -> HandshakeTimeout
       [] s \in {"Idle", "Head"} -> HeaderTimeout
       [] s = "Handling"         -> RequestTimeout]

\* No connection waits longer than its time-out.
AgesOK ==
  \A c \in Conns :
    /\ conn[c] = "Handshake" => age[c] <= HandshakeTimeout
    /\ conn[c] \in {"Idle", "Head"} => age[c] <= HeaderTimeout
    /\ conn[c] = "Handling" => age[c] <= RequestTimeout

TypeOK ==
  /\ phase \in Phases
  /\ ready \in BOOLEAN /\ stop \in BOOLEAN /\ paused \in BOOLEAN
  /\ signal \in {"None", "Waiting", "Received", "Stored", "Sent"}
  /\ conn \in [Conns -> Stages]
  /\ age \in [Conns -> Nat]
  /\ watchers \subseteq Conns
  /\ drained \in 0 .. DrainTimeout
  /\ AgesOK

Init ==
  /\ phase = "Starting"
  /\ ready = FALSE /\ stop = FALSE /\ paused = FALSE
  /\ signal = "None"
  /\ conn = [c \in Conns |-> "None"]
  /\ age = [c \in Conns |-> 0]
  /\ watchers = {}
  /\ drained = 0

-----------------------------------------------------------------------------
(***************************************************************************)
(* run.                                                                    *)
(***************************************************************************)
\* The health listener is bound and the signal task is spawned.
Start ==
  /\ phase = "Starting"
  /\ phase' = "Binding"
  /\ UNCHANGED <<ready, signal, stop, paused, conns, drained>>

\* ready.store(true) follows the bind without an await.
Bind ==
  /\ phase = "Binding"
  /\ phase' = "Serving"
  /\ ready' = TRUE
  /\ UNCHANGED <<signal, stop, paused, conns, drained>>

\* A port is taken.
BindFails ==
  /\ phase \in {"Starting", "Binding"}
  /\ phase' = "Failed"
  /\ UNCHANGED <<ready, signal, stop, paused, conns, drained>>

\* The shutdown branch of the select!.
BeginDrain ==
  /\ phase = "Serving" /\ ~paused /\ stop
  /\ phase' = "Draining"
  /\ UNCHANGED <<ready, signal, stop, paused, conns, drained>>

\* The drain has no time-out.
ReturnWhenEmpty ==
  /\ phase = "Draining" /\ watchers = {}
  /\ phase' = "Returned"
  /\ UNCHANGED <<ready, signal, stop, paused, conns, drained>>

\* The drain is as long as the time-out of a request.
ReturnEarly ==
  /\ phase = "Draining"
  /\ watchers = {} \/ drained >= RequestTimeout
  /\ phase' = "Returned"
  /\ UNCHANGED <<ready, signal, stop, paused, conns, drained>>

\* timeout(DRAIN_TIMEOUT, graceful.shutdown()): shutdown waits until nobody holds
\* a watcher.
Return ==
  /\ phase = "Draining"
  /\ watchers = {} \/ drained >= DrainTimeout
  /\ phase' = "Returned"
  /\ UNCHANGED <<ready, signal, stop, paused, conns, drained>>

-----------------------------------------------------------------------------
(***************************************************************************)
(* The signal task.  Before it waits, a signal kills the process.          *)
(***************************************************************************)
AwaitSignal ==
  /\ phase \notin Over \cup {"Starting"} /\ signal = "None"
  /\ signal' = "Waiting"
  /\ UNCHANGED <<phase, ready, stop, paused, conns, drained>>

Signal ==
  /\ phase \notin Over /\ signal \in {"None", "Waiting"}
  /\ IF signal = "None"
     THEN phase' = "Failed" /\ UNCHANGED signal
     ELSE signal' = "Received" /\ UNCHANGED phase
  /\ UNCHANGED <<ready, stop, paused, conns, drained>>

StoreNotReady ==
  /\ phase \notin Over /\ signal = "Received"
  /\ ready' = FALSE
  /\ signal' = "Stored"
  /\ UNCHANGED <<phase, stop, paused, conns, drained>>

SendStop ==
  /\ phase \notin Over /\ signal = "Stored"
  /\ stop' = TRUE
  /\ signal' = "Sent"
  /\ UNCHANGED <<phase, ready, paused, conns, drained>>

-----------------------------------------------------------------------------
(***************************************************************************)
(* Connections.                                                            *)
(***************************************************************************)
Open == phase \in {"Serving", "Draining"}

\* The time-out of a stage starts with it; a request's head is timed from the
\* end of the one before.
Move(c, stage) ==
  /\ conn' = [conn EXCEPT ![c] = stage]
  /\ age' = [age EXCEPT ![c] = IF stage = "Head" THEN @ ELSE 0]
  /\ UNCHANGED <<run, drained>>

Enter(c, stage) == Move(c, stage) /\ UNCHANGED watchers

\* The task ends, and drops its watcher if it has one.
End(c) == Move(c, "None") /\ watchers' = watchers \ {c}

\* No watcher is taken before the spawn.
AcceptUnwatched(c) ==
  /\ phase = "Serving" /\ ~paused
  /\ conn[c] = "None"
  /\ Enter(c, "Spawned")

\* The accept branch of the select!: graceful.watcher(), then the spawn of the
\* connection's task, which owns the watcher.
Accept(c) ==
  /\ phase = "Serving" /\ ~paused
  /\ conn[c] = "None"
  /\ Move(c, "Spawned")
  /\ watchers' = watchers \cup {c}

\* The task runs for the first time.
StartTask(c) ==
  /\ Open /\ conn[c] = "Spawned"
  /\ Enter(c, IF Tls THEN "Handshake" ELSE "Idle")

\* EMFILE and the like: the loop sleeps for 50 ms inside the branch.
AcceptFails ==
  /\ phase = "Serving" /\ ~paused
  /\ paused' = TRUE
  /\ UNCHANGED <<phase, ready, signal, stop, conns, drained>>

Resume ==
  /\ phase = "Serving" /\ paused
  /\ paused' = FALSE
  /\ UNCHANGED <<phase, ready, signal, stop, conns, drained>>

\* The client goes on: it completes the handshake, sends a first byte, the rest
\* of the head, the rest of the body.
ClientSends(c) ==
  /\ Open
  /\ \/ conn[c] = "Handshake" /\ Enter(c, "Idle")
     \/ conn[c] = "Idle" /\ Enter(c, "Head")
     \/ conn[c] = "Head" /\ Enter(c, "Body")
     \/ conn[c] = "Body" /\ Enter(c, "Handling")

\* After a response the connection is kept, unless the client or the drain asks
\* for its end.
Respond(c) ==
  \/ phase # "Draining" /\ Enter(c, "Idle")
  \/ End(c)

\* 404, 405, 413, or a body that is no JSON.
Refuse(c) ==
  /\ Open /\ conn[c] \in {"Head", "Body"}
  /\ Respond(c)

\* admit: allowed, denied, or 500 for the validator's error.
Answer(c) ==
  /\ Open /\ conn[c] = "Handling"
  /\ Respond(c)

\* The handshake fails, or the client goes away; its validator is dropped.
Disconnect(c) ==
  /\ Open /\ conn[c] \notin {"None", "Spawned"}
  /\ End(c)

\* Off by one.
TimeoutDueLate(c) ==
  /\ conn[c] \in DOMAIN Limit
  /\ age[c] > Limit[conn[c]]

TimeoutDue(c) ==
  /\ conn[c] \in DOMAIN Limit
  /\ age[c] >= Limit[conn[c]]

\* Handshake and header time-outs close the connection; a validator that takes
\* too long is dropped and answered for with 500.
Timeout(c) ==
  /\ Open /\ TimeoutDue(c)
  /\ IF conn[c] = "Handling" THEN Respond(c) ELSE End(c)

\* The drain tells the holders of its watchers: one that has no request under way
\* closes.
CloseDue(c) == phase = "Draining" /\ c \in watchers /\ conn[c] = "Idle"
CloseIdle(c) == CloseDue(c) /\ End(c)

-----------------------------------------------------------------------------
\* Timers that are due fire, tasks start and idle connections are closed before a
\* unit of time has passed.
Urgent ==
  \/ paused
  \/ \E c \in Conns : TimeoutDue(c) \/ conn[c] = "Spawned"
  \/ /\ phase = "Draining"
     /\ watchers = {} \/ drained >= DrainTimeout \/ \E c \in Conns : CloseDue(c)

Tick ==
  /\ Open /\ ~Urgent
  /\ age' = [c \in Conns |-> IF conn[c] \in DOMAIN Limit THEN age[c] + 1 ELSE 0]
  /\ drained' = IF phase = "Draining" THEN drained + 1 ELSE 0
  /\ UNCHANGED <<run, conn, watchers>>

RunStep == Start \/ Bind \/ Return \/ Resume
SignalTask == AwaitSignal \/ StoreNotReady \/ SendStop

Next ==
  \/ RunStep \/ SignalTask \/ BindFails \/ BeginDrain \/ Signal
  \/ AcceptFails \/ Tick
  \/ \E c \in Conns :
       \/ Accept(c) \/ StartTask(c) \/ ClientSends(c) \/ Refuse(c) \/ Answer(c)
       \/ Disconnect(c) \/ Timeout(c) \/ CloseIdle(c)

Spec == Init /\ [][Next]_vars

\* Tasks are not suspended for ever, timers fire and time passes.  select! picks
\* among its ready branches at random, so that failing accepts do not keep the
\* shutdown branch out for ever.  Nothing is assumed of clients and validators.
Fairness ==
  /\ WF_vars(RunStep) /\ WF_vars(SignalTask) /\ WF_vars(Tick)
  /\ SF_vars(BeginDrain)
  /\ \A c \in Conns :
       WF_vars(StartTask(c)) /\ WF_vars(Timeout(c)) /\ WF_vars(CloseIdle(c))

FairSpec == Spec /\ Fairness

-----------------------------------------------------------------------------
(***************************************************************************)
(* Properties.                                                             *)
(***************************************************************************)

\* run does not return over an open connection before the drain time-out: the
\* drain, which sees only watchers, misses no connection, not even one whose task
\* had not run or whose handshake was not over when the signal came
\* (webhook.rs:674, 702; tests/webhook.rs `shutdown_drains_in_flight_...').
DrainIsComplete ==
  phase = "Returned" /\ (\E c \in Conns : conn[c] # "None") => drained = DrainTimeout

\* What DrainIsComplete rests on: a connection holds its watcher from its accept
\* to its end (webhook.rs:674, 680, 722).
Watched == \A c \in Conns : conn[c] # "None" => c \in watchers

\* `in-flight requests are given up to 15 s to finish' (webhook.rs:507-509): a
\* validator that is cut off was called after the drain had begun; one that ran
\* when the signal came was answered or timed out.
HandlersFinish ==
  phase = "Returned" => \A c \in Conns : conn[c] = "Handling" => age[c] < drained

\* A shutdown signal ends run, whatever clients, validators and accept do.
ShutdownReturns == signal = "Received" ~> phase \in Over

\* /readyz returns `503 before that and after a shutdown signal'
\* (webhook.rs:497-499).
NotReadyAfterSignal == signal \in {"Stored", "Sent"} => ~ready

-----------------------------------------------------------------------------
\* The condition HandlersFinish needs; .request_timeout(..) does not check it.
PatientDrain == RequestTimeout < DrainTimeout
=============================================================================
