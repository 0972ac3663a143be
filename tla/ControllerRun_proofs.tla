------------------------ MODULE ControllerRun_proofs ------------------------
(***************************************************************************)
(* Invariants of ControllerRun, for any objects and any settings.  Each is *)
(* inductive together with TypeOK.                                         *)
(***************************************************************************)
EXTENDS ControllerRun, FiniteSetTheorems, TLAPS

\* Starting one reconcile takes one slot, ending one frees one: the count of
\* reconciles in flight is that of a finite set of objects.
LEMMA SlotCount ==
  ASSUME NEW S \in SUBSET Objects, NEW o \in Objects
  PROVE  /\ Cardinality(S) \in Nat
         /\ Cardinality(S \cup {o}) <= Cardinality(S) + 1
         /\ Cardinality(S \ {o}) <= Cardinality(S)
         /\ Cardinality({}) = 0
<1>1. IsFiniteSet(S)
  BY SettingsAssumption, FS_Subset
<1>2. /\ Cardinality(S) \in Nat
      /\ Cardinality(S \cup {o}) =
           IF o \in S THEN Cardinality(S) ELSE Cardinality(S) + 1
      /\ Cardinality(S \ {o}) =
           IF o \in S THEN Cardinality(S) - 1 ELSE Cardinality(S)
  BY <1>1, FS_AddElement, FS_RemoveElement, FS_CardinalityType
<1>3. Cardinality({}) = 0
  BY FS_EmptySet
<1> QED
  BY <1>2, <1>3

\* Every variable keeps its type, and no more reconciles run than
\* .concurrency(n) allows.
THEOREM TypeCorrect == Spec => []TypeOK
<1>1. Init => TypeOK
  <2> SUFFICES ASSUME Init PROVE TypeOK
    OBVIOUS
  <2>1. Concurrency \in Nat /\ Cardinality({}) = 0
    BY SettingsAssumption, FS_EmptySet
  <2>2. SlotsOK
    BY <2>1 DEF Init, SlotsOK
  <2> QED
    BY <2>2 DEF Init, TypeOK, Phases
<1>2. TypeOK /\ [Next]_vars => TypeOK'
  <2> SUFFICES ASSUME TypeOK, [Next]_vars PROVE TypeOK'
    OBVIOUS
  <2>0. Concurrency \in Nat /\ Cardinality({}) = 0
    BY SettingsAssumption, FS_EmptySet
  <2> USE DEF TypeOK, Phases, Over
  <2>1. CASE RunStep
    <3>1. running' = running
      BY <2>1 DEF RunStep, Bind, MarkReady, StopCampaign, Drain, Drained,
         Release, work
    <3>2. SlotsOK'
      BY <3>1 DEF SlotsOK
    <3> QED
      BY <2>1, <3>2 DEF RunStep, Bind, MarkReady, StopCampaign, Drain, Drained,
         Release, work
  <2>2. CASE SignalTask
    <3>1. running' = running
      BY <2>2 DEF SignalTask, AwaitSignal, StoreNotReady, SendStop, work
    <3>2. SlotsOK'
      BY <3>1 DEF SlotsOK
    <3> QED
      BY <2>2, <3>2 DEF SignalTask, AwaitSignal, StoreNotReady, SendStop, work
  <2>3. CASE BindFails \/ Acquire \/ LoseLease \/ Restart \/ Signal
    <3>1. running' = running \/ running' = {}
      BY <2>3 DEF BindFails, Acquire, LoseLease, Restart, Signal, Die, work
    <3>2. SlotsOK'
      BY <2>0, <3>1 DEF SlotsOK
    <3> QED
      BY <2>3, <3>2 DEF BindFails, Acquire, LoseLease, Restart, Signal, Die, work
  <2>4. ASSUME NEW o \in Objects, Change(o) \/ RequeueDue(o)
        PROVE  TypeOK'
    <3>1. SlotsOK'
      BY <2>4 DEF Change, RequeueDue, SlotsOK
    <3> QED
      BY <2>4, <3>1 DEF Change, RequeueDue, Schedule
  <2>5. ASSUME NEW o \in Objects, BeginReconcile(o)
        PROVE  TypeOK'
    <3>1. /\ Cardinality(running) \in Nat
          /\ Cardinality(running \cup {o}) <= Cardinality(running) + 1
          /\ Cardinality(running \cup {o}) \in Nat
      <4>1. running \in SUBSET Objects /\ running \cup {o} \in SUBSET Objects
        OBVIOUS
      <4> QED
        BY <4>1, SlotCount
    <3>2. SlotsOK'
      BY <2>0, <2>5, <3>1 DEF BeginReconcile, HasSlot, SlotsOK
    <3> QED
      BY <2>5, <3>2 DEF BeginReconcile
  <2>6. ASSUME NEW o \in Objects, NEW b \in BOOLEAN, EndReconcile(o, b),
               failed' \in {failed \cup {o}, failed \ {o}}
        PROVE  TypeOK'
    <3>1. /\ Cardinality(running) \in Nat
          /\ Cardinality(running \ {o}) \in Nat
          /\ Cardinality(running \ {o}) <= Cardinality(running)
      <4>1. running \in SUBSET Objects /\ running \ {o} \in SUBSET Objects
        OBVIOUS
      <4> QED
        BY <4>1, SlotCount
    <3>2. SlotsOK'
      BY <2>0, <2>6, <3>1 DEF EndReconcile, SlotsOK
    <3> QED
      BY <2>6, <3>2 DEF EndReconcile
  <2>7. ASSUME NEW o \in Objects, Succeed(o) \/ Err(o) \/ TimeOut(o)
        PROVE  TypeOK'
    BY <2>6, <2>7 DEF Succeed, Err, TimeOut
  <2>8. CASE UNCHANGED vars
    BY <2>8 DEF vars, work, SlotsOK
  <2> QED
    BY <2>1, <2>2, <2>3, <2>4, <2>5, <2>7, <2>8 DEF Next
<1> QED
  BY <1>1, <1>2, PTL DEF Spec

\* No reconcile is in flight outside the loop: the lease is released, and run
\* returns, only after the last one ended or was cancelled.
THEOREM ReconcilesEndWithLoop == Spec => []ReconcilesInLoop
<1>1. Init => ReconcilesInLoop
  BY DEF Init, ReconcilesInLoop
<1>2. ReconcilesInLoop /\ [Next]_vars => ReconcilesInLoop'
  <2> SUFFICES ASSUME ReconcilesInLoop, [Next]_vars PROVE ReconcilesInLoop'
    OBVIOUS
  <2> USE DEF ReconcilesInLoop, InLoop
  <2>1. CASE RunStep
    BY <2>1 DEF RunStep, Bind, MarkReady, StopCampaign, Drain, Drained, Release,
       work
  <2>2. CASE SignalTask
    BY <2>2 DEF SignalTask, AwaitSignal, StoreNotReady, SendStop, work
  <2>3. CASE BindFails \/ Acquire \/ LoseLease \/ Restart \/ Signal
    BY <2>3 DEF BindFails, Acquire, LoseLease, Restart, Signal, Die, work
  <2>4. ASSUME NEW o \in Objects,
               Change(o) \/ RequeueDue(o) \/ BeginReconcile(o)
        PROVE  ReconcilesInLoop'
    BY <2>4 DEF Change, RequeueDue, BeginReconcile
  <2>5. ASSUME NEW o \in Objects, Succeed(o) \/ Err(o) \/ TimeOut(o)
        PROVE  ReconcilesInLoop'
    BY <2>5 DEF Succeed, Err, TimeOut, EndReconcile
  <2>6. CASE UNCHANGED vars
    BY <2>6 DEF vars, work
  <2> QED
    BY <2>1, <2>2, <2>3, <2>4, <2>5, <2>6 DEF Next
<1> QED
  BY <1>1, <1>2, PTL DEF Spec

\* While the loop accepts work, every changed object is due and every failed one
\* is in flight or will be.
THEOREM NothingIsForgotten == Spec => []NothingForgotten
<1>1. Init => NothingForgotten
  BY DEF Init, NothingForgotten, InLoop
<1>2. TypeOK /\ NothingForgotten /\ [Next]_vars => NothingForgotten'
  <2> SUFFICES ASSUME TypeOK, NothingForgotten, [Next]_vars
               PROVE  NothingForgotten'
    OBVIOUS
  <2> USE DEF NothingForgotten, InLoop
  <2>1. CASE RunStep
    BY <2>1 DEF RunStep, Bind, MarkReady, StopCampaign, Drain, Drained, Release,
       work
  <2>2. CASE SignalTask
    BY <2>2 DEF SignalTask, AwaitSignal, StoreNotReady, SendStop, work
  <2>3. CASE BindFails \/ Acquire \/ LoseLease \/ Restart \/ Signal
    BY <2>3 DEF BindFails, Acquire, LoseLease, Restart, Signal, Die, work, TypeOK
  <2>4. ASSUME NEW o \in Objects,
               Change(o) \/ RequeueDue(o) \/ BeginReconcile(o)
        PROVE  NothingForgotten'
    BY <2>4 DEF Change, RequeueDue, BeginReconcile, Schedule
  <2>5. ASSUME NEW o \in Objects, Succeed(o) \/ Err(o) \/ TimeOut(o)
        PROVE  NothingForgotten'
    BY <2>5 DEF Succeed, Err, TimeOut, EndReconcile
  <2>6. CASE UNCHANGED vars
    BY <2>6 DEF vars, work
  <2> QED
    BY <2>1, <2>2, <2>3, <2>4, <2>5, <2>6 DEF Next
<1> QED
  BY <1>1, <1>2, TypeCorrect, PTL DEF Spec

\* A replica that waits for the lease, or has it, is ready until a signal comes.
THEOREM StandbyReady == Spec => []StandbyIsReady
<1>1. Init => StandbyIsReady
  BY DEF Init, StandbyIsReady
<1>2. StandbyIsReady /\ [Next]_vars => StandbyIsReady'
  <2> SUFFICES ASSUME StandbyIsReady, [Next]_vars PROVE StandbyIsReady'
    OBVIOUS
  <2> USE DEF StandbyIsReady
  <2>1. CASE RunStep
    BY <2>1 DEF RunStep, Bind, MarkReady, StopCampaign, Drain, Drained, Release,
       InLoop
  <2>2. CASE SignalTask
    BY <2>2 DEF SignalTask, AwaitSignal, StoreNotReady, SendStop
  <2>3. CASE BindFails \/ Acquire \/ LoseLease \/ Restart \/ Signal
    BY <2>3 DEF BindFails, Acquire, LoseLease, Restart, Signal, Die
  <2>4. ASSUME NEW o \in Objects,
               Change(o) \/ RequeueDue(o) \/ BeginReconcile(o)
        PROVE  StandbyIsReady'
    BY <2>4 DEF Change, RequeueDue, BeginReconcile
  <2>5. ASSUME NEW o \in Objects, Succeed(o) \/ Err(o) \/ TimeOut(o)
        PROVE  StandbyIsReady'
    BY <2>5 DEF Succeed, Err, TimeOut, EndReconcile
  <2>6. CASE UNCHANGED vars
    BY <2>6 DEF vars
  <2> QED
    BY <2>1, <2>2, <2>3, <2>4, <2>5, <2>6 DEF Next
<1> QED
  BY <1>1, <1>2, PTL DEF Spec
=============================================================================
