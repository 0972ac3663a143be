---------------------------- MODULE ControllerRun ----------------------------
(***************************************************************************)
(* One process that runs ControllerBuilder::run                            *)
(* (crates/koprs/src/controller.rs): start-up, readiness, the shutdown     *)
(* signal, the campaign for the lease, the reconcile loop with timeouts,   *)
(* the drain and the release.                                              *)
(*                                                                         *)
(* Three tasks touch the shared state: run itself, the task that waits for *)
(* the signal, and kube-runtime's scheduler (external: modelled from how   *)
(* run configures it).  The election is the lock of LeaseLock seen from    *)
(* one replica: it may be won, it may be lost while it is held.            *)
(***************************************************************************)
EXTENDS Naturals, FiniteSets

CONSTANTS
  Objects,          \* the custom resources of this controller
  Concurrency,      \* .concurrency(n): reconciles at once, 0 is unbounded
  LeaderElection,   \* .leader_election() was called
  GracefulShutdown, \* .graceful_shutdown() was called
  ReconcileTimeout  \* .reconcile_timeout() was called

ASSUME SettingsAssumption ==
  /\ IsFiniteSet(Objects)
  /\ Concurrency \in Nat
  /\ {LeaderElection, GracefulShutdown, ReconcileTimeout} \subseteq BOOLEAN

VARIABLES
  phase,     \* where run is
  ready,     \* the AtomicBool behind /readyz
  signal,    \* where the signal task is
  stop,      \* the value in the shutdown watch channel
  draining,  \* the reconcile loop has seen stop
  queued,    \* objects due for a reconcile
  delayed,   \* objects with a requeue that is not due yet
  running,   \* objects whose reconcile is in flight
  changed,   \* objects changed since their last reconcile began
  failed     \* objects whose last reconcile failed or timed out

work == <<queued, delayed, running, changed, failed>>
vars == <<phase, ready, signal, stop, draining, work>>

Phases == {"Binding",      \* configuration, health and metrics listeners
           "Bound",        \* signal task spawned, not marked ready yet
           "Campaigning",  \* select! of acquire and wait_for_shutdown
           "Running",      \* the reconcile loop (and renew_until_lost)
           "Releasing",    \* release, bounded by LEASE_RELEASE_TIMEOUT
           "Stopped",      \* returned Ok
           "Failed"}       \* returned Err, or was killed
Over == {"Stopped", "Failed"}

\* .concurrency(n) holds.
SlotsOK == Concurrency > 0 => Cardinality(running) <= Concurrency

TypeOK ==
  /\ phase \in Phases
  /\ ready \in BOOLEAN /\ stop \in BOOLEAN /\ draining \in BOOLEAN
  /\ signal \in {"None", "Waiting", "Received", "Stored", "Sent"}
  /\ queued \subseteq Objects /\ delayed \subseteq Objects
  /\ running \subseteq Objects
  /\ changed \subseteq Objects /\ failed \subseteq Objects
  /\ SlotsOK

Init ==
  /\ phase = "Binding"
  /\ ready = FALSE /\ stop = FALSE /\ draining = FALSE
  /\ signal = "None"
  /\ queued = {} /\ delayed = {} /\ running = {} /\ failed = {}
  /\ changed = Objects

-----------------------------------------------------------------------------
\* run returns Err or the process is killed: nothing in flight survives.
Die ==
  /\ phase' = "Failed"
  /\ queued' = {} /\ delayed' = {} /\ running' = {}
  /\ UNCHANGED <<changed, failed>>

(***************************************************************************)
(* run: start-up.                                                          *)
(***************************************************************************)
\* The listeners are bound and, with graceful shutdown, the signal task is
\* spawned.
Bind ==
  /\ phase = "Binding"
  /\ phase' = "Bound"
  /\ UNCHANGED <<ready, signal, stop, draining, work>>

\* A port is taken or the configuration is invalid.
BindFails ==
  /\ phase = "Binding"
  /\ Die
  /\ UNCHANGED <<ready, signal, stop, draining>>

\* Seeded faults stand before the definition they replace.
\* A replica is not ready before it has the lease.
MarkReadyIfAlone ==
  /\ phase = "Bound"
  /\ ready' = ~LeaderElection
  /\ phase' = "Campaigning"
  /\ UNCHANGED <<signal, stop, draining, work>>

\* ready.store(true)
MarkReady ==
  /\ phase = "Bound"
  /\ ready' = TRUE
  /\ phase' = "Campaigning"
  /\ UNCHANGED <<signal, stop, draining, work>>

\* acquire returns, or there is no election; the controller starts with a list
\* of all objects.
Acquire ==
  /\ phase = "Campaigning"
  /\ phase' = "Running"
  /\ queued' = Objects
  /\ UNCHANGED <<ready, signal, stop, draining, delayed, running, changed, failed>>

\* The shutdown signal wins the select! with acquire.
StopCampaign ==
  /\ phase = "Campaigning" /\ LeaderElection /\ stop
  /\ phase' = "Stopped"
  /\ UNCHANGED <<ready, signal, stop, draining, work>>

-----------------------------------------------------------------------------
(***************************************************************************)
(* The signal task.  Before it waits, a signal kills the process.          *)
(***************************************************************************)
AwaitSignal ==
  /\ GracefulShutdown
  /\ phase \notin Over \cup {"Binding"} /\ signal = "None"
  /\ signal' = "Waiting"
  /\ UNCHANGED <<phase, ready, stop, draining, work>>

Signal ==
  /\ phase \notin Over /\ signal \in {"None", "Waiting"}
  /\ IF signal = "None"
     THEN Die /\ UNCHANGED <<ready, signal, stop, draining>>
     ELSE signal' = "Received" /\ UNCHANGED <<phase, ready, stop, draining, work>>

StoreNotReady ==
  /\ phase \notin Over /\ signal = "Received"
  /\ ready' = FALSE
  /\ signal' = "Stored"
  /\ UNCHANGED <<phase, stop, draining, work>>

SendStop ==
  /\ phase \notin Over /\ signal = "Stored"
  /\ stop' = TRUE
  /\ signal' = "Sent"
  /\ UNCHANGED <<phase, ready, draining, work>>

-----------------------------------------------------------------------------
(***************************************************************************)
(* The reconcile loop.                                                     *)
(***************************************************************************)
InLoop == phase = "Running"

\* kube-runtime schedules an object once, at the earliest time asked for.
Schedule(o) ==
  /\ queued' = queued \cup {o}
  /\ delayed' = delayed \ {o}

\* A change of an object in flight is not scheduled.
ChangeUnlessRunning(o) ==
  /\ changed' = changed \cup {o}
  /\ IF InLoop /\ ~draining /\ o \notin running
     THEN Schedule(o)
     ELSE UNCHANGED <<queued, delayed>>
  /\ UNCHANGED <<phase, ready, signal, stop, draining, running, failed>>

\* The object, or a child that .owns() or .watch() maps to it, changes.
Change(o) ==
  /\ changed' = changed \cup {o}
  /\ IF InLoop /\ ~draining
     THEN Schedule(o)
     ELSE UNCHANGED <<queued, delayed>>
  /\ UNCHANGED <<phase, ready, signal, stop, draining, running, failed>>

RequeueDue(o) ==
  /\ InLoop /\ ~draining /\ o \in delayed
  /\ Schedule(o)
  /\ UNCHANGED <<phase, ready, signal, stop, draining, running, changed, failed>>

\* Off by one.
HasSlotOneMore == Concurrency = 0 \/ Cardinality(running) <= Concurrency

HasSlot == Concurrency = 0 \/ Cardinality(running) < Concurrency

\* No object is reconciled twice at once; the copy it gets is current.
BeginReconcile(o) ==
  /\ InLoop /\ ~draining
  /\ HasSlot /\ o \in queued \ running
  /\ queued' = queued \ {o}
  /\ running' = running \cup {o}
  /\ changed' = changed \ {o}
  /\ UNCHANGED <<phase, ready, signal, stop, draining, delayed, failed>>

\* A reconcile ends; Action::requeue asks for another one later, unless the
\* object is due already or the loop drains.
EndReconcile(o, requeue) ==
  /\ InLoop /\ o \in running
  /\ running' = running \ {o}
  /\ delayed' = IF requeue /\ ~draining /\ o \notin queued
                THEN delayed \cup {o} ELSE delayed
  /\ UNCHANGED <<phase, ready, signal, stop, draining, queued, changed>>

\* reconcile returns Ok with await_change or requeue.
Succeed(o) ==
  /\ \E requeue \in BOOLEAN : EndReconcile(o, requeue)
  /\ failed' = failed \ {o}

\* error_policy waits for the next change.
ErrAwaitsChange(o) ==
  /\ EndReconcile(o, FALSE)
  /\ failed' = failed \cup {o}

\* reconcile returns Err: error_policy requeues.
Err(o) ==
  /\ EndReconcile(o, TRUE)
  /\ failed' = failed \cup {o}

\* A timed-out object is not requeued.
TimeOutAwaitsChange(o) ==
  /\ ReconcileTimeout
  /\ EndReconcile(o, FALSE)
  /\ failed' = failed \cup {o}

\* The timeout drops the reconcile and requeues the object.
TimeOut(o) ==
  /\ ReconcileTimeout
  /\ EndReconcile(o, TRUE)
  /\ failed' = failed \cup {o}

-----------------------------------------------------------------------------
(***************************************************************************)
(* run: the end.                                                           *)
(***************************************************************************)
\* The loop stops only when there is nothing left to do.
DrainWhenIdle ==
  /\ InLoop /\ stop /\ ~draining
  /\ queued = {} /\ running = {}
  /\ draining' = TRUE
  /\ delayed' = {}
  /\ UNCHANGED <<phase, ready, signal, stop, queued, running, changed, failed>>

\* graceful_shutdown_on(wait_for_shutdown): nothing new is scheduled.
Drain ==
  /\ InLoop /\ stop /\ ~draining
  /\ draining' = TRUE
  /\ queued' = {} /\ delayed' = {}
  /\ UNCHANGED <<phase, ready, signal, stop, running, changed, failed>>

\* The loop is dropped as soon as it drains.
DrainedAtOnce ==
  /\ InLoop /\ draining
  /\ phase' = IF LeaderElection THEN "Releasing" ELSE "Stopped"
  /\ UNCHANGED <<ready, signal, stop, draining, work>>

\* The loop ends when the last reconcile has.
Drained ==
  /\ InLoop /\ draining /\ running = {}
  /\ phase' = IF LeaderElection THEN "Releasing" ELSE "Stopped"
  /\ UNCHANGED <<ready, signal, stop, draining, work>>

\* release ends, fails or times out: run returns Ok all the same.
Release ==
  /\ phase = "Releasing"
  /\ phase' = "Stopped"
  /\ UNCHANGED <<ready, signal, stop, draining, work>>

\* renew_until_lost returns: run_loop is dropped with all reconciles in flight.
LoseLease ==
  /\ InLoop /\ LeaderElection
  /\ Die
  /\ UNCHANGED <<ready, signal, stop, draining>>

\* The pod restarts after run returned Err.
Restart ==
  /\ phase = "Failed"
  /\ phase' = "Binding"
  /\ signal' = "None"
  /\ ready' = FALSE /\ stop' = FALSE /\ draining' = FALSE
  /\ failed' = {}
  /\ UNCHANGED <<queued, delayed, running, changed>>

RunStep == Bind \/ MarkReady \/ StopCampaign \/ Drain \/ Drained \/ Release
SignalTask == AwaitSignal \/ StoreNotReady \/ SendStop

Next ==
  \/ RunStep \/ SignalTask
  \/ BindFails \/ Acquire \/ LoseLease \/ Restart \/ Signal
  \/ \E o \in Objects :
       \/ Change(o) \/ RequeueDue(o) \/ BeginReconcile(o)
       \/ Succeed(o) \/ Err(o) \/ TimeOut(o)

Spec == Init /\ [][Next]_vars

(***************************************************************************)
(* The tasks of the process are not suspended for ever, requeues fire, a   *)
(* reconcile that never ends is timed out (if there is a timeout) and      *)
(* kube-runtime starves no object.  Nothing says that the lease is won,    *)
(* that a reconcile succeeds or that a dead pod is restarted.              *)
(***************************************************************************)
Fairness ==
  /\ WF_vars(RunStep) /\ WF_vars(SignalTask)
  /\ WF_vars(~LeaderElection /\ Acquire)
  /\ \A o \in Objects :
       WF_vars(RequeueDue(o)) /\ SF_vars(BeginReconcile(o)) /\ WF_vars(TimeOut(o))

FairSpec == Spec /\ Fairness

-----------------------------------------------------------------------------
(***************************************************************************)
(* Properties.                                                             *)
(***************************************************************************)

\* Reconciles run only inside the loop, that is while the lease is held: all
\* have ended when the lease is released or run returns Ok, and a lost lease
\* cancels them (controller.rs:814-823, `must not keep writing').
ReconcilesInLoop == running # {} => InLoop

\* While the loop accepts work, an object that changed since its last reconcile
\* began is due now, and one whose last reconcile failed or timed out is in
\* flight again or will be: no change and no failure is forgotten.
NothingForgotten ==
  InLoop /\ ~draining =>
    /\ changed \subseteq queued
    /\ failed \subseteq queued \cup delayed \cup running

\* A replica that waits for the lease is ready, or rolling updates would block
\* (controller.rs:732-734 and 374-380), until a signal reaches it.
StandbyIsReady ==
  phase \in {"Campaigning", "Running"} /\ signal \in {"None", "Waiting"} => ready

\* A change is reconciled, unless the loop ends (controller.rs:143-170).
ChangesReconciled ==
  \A o \in Objects : InLoop /\ o \in changed ~> ~InLoop \/ o \in running

\* A failed or timed-out reconcile is tried again, unless the loop ends.
FailuresRetried ==
  \A o \in Objects : InLoop /\ o \in failed ~> ~InLoop \/ o \in running

\* After the shutdown signal run returns, however many objects are due and
\* whatever the reconciles in flight do, because they are bounded by the
\* timeout (controller.rs:403-411).
ShutdownCompletes == stop ~> phase \in Over

\* `503 again after a shutdown signal' (controller.rs:377-378): once the signal
\* task has handled the signal, /readyz does not report ready.
NotReadyAfterSignal == stop => ~ready
=============================================================================
