---------------------------- MODULE Webhook_proofs ----------------------------
(***************************************************************************)
(* Theorems about Webhook, for any number of connections and any time-outs *)
(* (HandlersAreAnswered: for time-outs with PatientDrain).                 *)
(***************************************************************************)
EXTENDS Webhook, TLAPS

\* What a step of run, or of the signal task, leaves alone.
LEMMA RunStepFrame ==
  ASSUME RunStep \/ SignalTask \/ BindFails \/ BeginDrain \/ Signal \/ AcceptFails
  PROVE  /\ UNCHANGED <<conn, age, watchers, drained>>
         /\ phase = "Returned" => phase' = "Returned"
         /\ phase' = "Returned" /\ phase # "Returned" => Return
BY DEF RunStep, SignalTask, BindFails, BeginDrain, Signal, AcceptFails, Start, Bind,
       Return, Resume, AwaitSignal, StoreNotReady, SendStop, Over, conns

\* Every step of a connection moves it to a stage; only the first byte of a
\* request lets its time-out run on.  No other connection's watcher is touched, and
\* a connection that goes on has just been given its watcher or keeps what it had.
LEMMA ConnStep ==
  ASSUME NEW c \in Conns,
         \/ Accept(c) \/ StartTask(c) \/ ClientSends(c) \/ Refuse(c) \/ Answer(c)
         \/ Disconnect(c) \/ Timeout(c) \/ CloseIdle(c)
  PROVE  /\ Open
         /\ watchers' \cup {c} = watchers \cup {c}
         /\ \E stage \in Stages :
              /\ Move(c, stage) /\ (stage = "Head" => conn[c] = "Idle")
              /\ \/ stage = "None" \/ c \in watchers'
                 \/ conn[c] # "None" /\ watchers' = watchers
<1> DEFINE Goal == /\ watchers' \cup {c} = watchers \cup {c}
                   /\ \E stage \in Stages :
                        /\ Move(c, stage) /\ (stage = "Head" => conn[c] = "Idle")
                        /\ \/ stage = "None" \/ c \in watchers'
                           \/ conn[c] # "None" /\ watchers' = watchers
<1>1. ASSUME NEW stage \in Stages, Enter(c, stage), conn[c] # "None",
             stage = "Head" => conn[c] = "Idle"
      PROVE  Goal
  BY <1>1 DEF Enter
<1>2. ASSUME End(c) PROVE Goal
  BY <1>2 DEF End, Stages
<1>3. CASE Accept(c)
  BY <1>3 DEF Accept, Open, Stages
<1>4. CASE StartTask(c)
  BY <1>1, <1>4 DEF StartTask, Stages
<1>5. CASE ClientSends(c)
  BY <1>1, <1>5 DEF ClientSends, Stages
<1>6. CASE Refuse(c) \/ Answer(c)
  BY <1>1, <1>2, <1>6 DEF Refuse, Answer, Respond, Stages
<1>7. CASE Timeout(c)
  BY <1>1, <1>2, <1>7 DEF Timeout, Respond, Stages
<1>8. CASE Disconnect(c) \/ CloseIdle(c)
  BY <1>2, <1>8 DEF Disconnect, CloseIdle, CloseDue, Open
<1> QED BY <1>3, <1>4, <1>5, <1>6, <1>7, <1>8

\* Every variable keeps its type and no connection outstays its time-out.
THEOREM TypeCorrect == Spec => []TypeOK
<1> USE TimeoutsAssumption
<1>1. Init => TypeOK
  <2> SUFFICES ASSUME Init PROVE TypeOK
    OBVIOUS
  <2>1. /\ AgesOK /\ age \in [Conns -> Nat] /\ conn \in [Conns -> Stages]
        /\ watchers \subseteq Conns
    BY DEF Init, AgesOK, Stages
  <2>2. drained \in 0 .. DrainTimeout
    BY DEF Init
  <2> QED
    BY <2>1, <2>2 DEF Init, TypeOK, Phases, Over
<1>2. TypeOK /\ [Next]_vars => TypeOK'
  <2> SUFFICES ASSUME TypeOK, [Next]_vars PROVE TypeOK'
    OBVIOUS
  <2> USE DEF TypeOK
  <2>1. CASE RunStep \/ SignalTask \/ BindFails \/ BeginDrain \/ Signal \/ AcceptFails
    <3>1. UNCHANGED <<conn, age, watchers, drained>>
      BY <2>1, RunStepFrame
    <3>2. AgesOK'
      BY <3>1 DEF AgesOK
    <3>3. /\ phase' \in Phases
          /\ ready' \in BOOLEAN /\ stop' \in BOOLEAN /\ paused' \in BOOLEAN
          /\ signal' \in {"None", "Waiting", "Received", "Stored", "Sent"}
      BY <2>1 DEF RunStep, SignalTask, BindFails, BeginDrain, Signal, AcceptFails, Start,
                  Bind, Return, Resume, AwaitSignal, StoreNotReady, SendStop, Phases, Over
    <3> QED
      BY <3>1, <3>2, <3>3
  <2>2. CASE Tick
    <3>1. UNCHANGED run /\ drained' \in 0 .. DrainTimeout
      BY <2>2 DEF Tick, Urgent, run
    <3>2. UNCHANGED <<conn, watchers>> /\ age' \in [Conns -> Nat]
      BY <2>2 DEF Tick
    <3>3. DOMAIN Limit = {"Handshake", "Idle", "Head", "Handling"}
      BY DEF Limit
    <3>4. ASSUME NEW c \in Conns, conn[c] \in DOMAIN Limit
          PROVE  age'[c] = age[c] + 1 /\ ~(age[c] >= Limit[conn[c]])
      BY <2>2, <3>4 DEF Tick, Urgent, TimeoutDue
    <3>5. /\ Limit["Handshake"] = HandshakeTimeout /\ Limit["Handling"] = RequestTimeout
          /\ Limit["Idle"] = HeaderTimeout /\ Limit["Head"] = HeaderTimeout
      BY DEF Limit
    <3>6. AgesOK'
      <4> SUFFICES ASSUME NEW c \in Conns, conn[c] \in DOMAIN Limit
                   PROVE  age'[c] <= Limit[conn[c]]
        BY <3>2, <3>3, <3>5 DEF AgesOK
      <4>1. Limit[conn[c]] \in Nat /\ age[c] \in Nat
        BY <3>3, <3>5
      <4> QED
        BY <3>4, <4>1
    <3> QED
      BY <3>1, <3>2, <3>6 DEF run
  <2>3. CASE \E c \in Conns :
               \/ Accept(c) \/ StartTask(c) \/ ClientSends(c) \/ Refuse(c) \/ Answer(c)
               \/ Disconnect(c) \/ Timeout(c) \/ CloseIdle(c)
    <3>1. PICK c \in Conns, stage \in Stages :
            Move(c, stage) /\ (stage = "Head" => conn[c] = "Idle")
      BY <2>3, ConnStep
    <3>2. /\ conn'[c] = stage
          /\ age'[c] = IF stage = "Head" THEN age[c] ELSE 0
          /\ \A d \in Conns \ {c} : conn'[d] = conn[d] /\ age'[d] = age[d]
      BY <3>1 DEF Move
    <3>3. conn' \in [Conns -> Stages] /\ age' \in [Conns -> Nat]
      BY <3>1 DEF Move
    <3>4. AgesOK'
      BY <3>1, <3>2 DEF AgesOK
    <3>5. watchers' \subseteq Conns
      <4>1. PICK d \in Conns : watchers' \cup {d} = watchers \cup {d}
        BY <2>3, ConnStep
      <4> QED BY <4>1
    <3> QED
      BY <3>1, <3>3, <3>4, <3>5 DEF Move, run
  <2>4. CASE UNCHANGED vars
    BY <2>4 DEF vars, conns, run, AgesOK
  <2> QED
    BY <2>1, <2>2, <2>3, <2>4 DEF Next
<1> QED
  BY <1>1, <1>2, PTL DEF Spec

\* Whoever waits for something on a connection is known to the drain: the watcher
\* is there before the task, and goes only with it.
THEOREM ConnectionsAreWatched == Spec => []Watched
<1>1. Init => Watched
  BY DEF Init, Watched
<1>2. TypeOK /\ Watched /\ [Next]_vars => Watched'
  <2> SUFFICES ASSUME TypeOK, Watched, [Next]_vars, NEW d \in Conns, conn'[d] # "None"
               PROVE  d \in watchers'
    BY DEF Watched
  <2>1. CASE RunStep \/ SignalTask \/ BindFails \/ BeginDrain \/ Signal \/ AcceptFails
    BY <2>1, RunStepFrame DEF Watched
  <2>2. CASE Tick
    BY <2>2 DEF Tick, Watched
  <2>3. ASSUME NEW c \in Conns,
               \/ Accept(c) \/ StartTask(c) \/ ClientSends(c) \/ Refuse(c) \/ Answer(c)
               \/ Disconnect(c) \/ Timeout(c) \/ CloseIdle(c)
        PROVE  d \in watchers'
    <3>1. /\ watchers' \cup {c} = watchers \cup {c}
          /\ \E stage \in Stages :
               /\ Move(c, stage)
               /\ \/ stage = "None" \/ c \in watchers'
                  \/ conn[c] # "None" /\ watchers' = watchers
      BY <2>3, ConnStep
    <3>2. PICK stage \in Stages :
            /\ Move(c, stage)
            /\ \/ stage = "None" \/ c \in watchers'
               \/ conn[c] # "None" /\ watchers' = watchers
      BY <3>1
    <3>3. conn' = [conn EXCEPT ![c] = stage] /\ conn \in [Conns -> Stages]
      BY <3>2 DEF Move, TypeOK
    <3>4. CASE d = c
      BY <3>2, <3>3, <3>4 DEF Watched
    <3>5. CASE d # c
      BY <3>1, <3>3, <3>5 DEF Watched
    <3> QED BY <3>4, <3>5
  <2>4. CASE UNCHANGED vars
    BY <2>4 DEF vars, conns, Watched
  <2> QED
    BY <2>1, <2>2, <2>3, <2>4 DEF Next
<1> QED
  BY <1>1, <1>2, TypeCorrect, PTL DEF Spec

\* A step that is not the return itself leaves a process that has returned, and
\* what its connections waited for, as it is.
LEMMA ReturnedStays ==
  ASSUME [Next]_vars, phase' = "Returned"
  PROVE  Return \/ (phase = "Returned" /\ UNCHANGED <<conn, age, drained>>)
<1>1. CASE RunStep \/ SignalTask \/ BindFails \/ BeginDrain \/ Signal \/ AcceptFails
  BY <1>1, RunStepFrame
<1>2. CASE Tick
  BY <1>2 DEF Tick, Open, run
<1>3. CASE \E c \in Conns :
             \/ Accept(c) \/ StartTask(c) \/ ClientSends(c) \/ Refuse(c) \/ Answer(c)
             \/ Disconnect(c) \/ Timeout(c) \/ CloseIdle(c)
  <2>1. Open /\ UNCHANGED phase
    BY <1>3, ConnStep DEF Move, run
  <2> QED
    BY <2>1 DEF Open
<1>4. CASE UNCHANGED vars
  BY <1>4 DEF vars, conns, run
<1> QED
  BY <1>1, <1>2, <1>3, <1>4 DEF Next

\* run returns over an open connection only when the drain timed out: a
\* connection the drain did not wait for would be one without a watcher.
THEOREM DrainEndsInOrder == Spec => []DrainIsComplete
<1>1. Init => DrainIsComplete
  BY DEF Init, DrainIsComplete
<1>2. TypeOK /\ Watched /\ DrainIsComplete /\ [Next]_vars => DrainIsComplete'
  <2> SUFFICES ASSUME TypeOK, Watched, DrainIsComplete, [Next]_vars,
                      phase' = "Returned", NEW c \in Conns, conn'[c] # "None"
               PROVE  drained' = DrainTimeout
    BY DEF DrainIsComplete
  <2>1. CASE Return
    <3>1. UNCHANGED <<conn, drained>> /\ (watchers = {} \/ drained >= DrainTimeout)
      BY <2>1 DEF Return, conns
    <3>2. c \in watchers
      BY <3>1 DEF Watched
    <3> QED
      BY <3>1, <3>2, TimeoutsAssumption DEF TypeOK
  <2>2. CASE phase = "Returned" /\ UNCHANGED <<conn, age, drained>>
    BY <2>2 DEF DrainIsComplete
  <2> QED
    BY <2>1, <2>2, ReturnedStays
<1> QED
  BY <1>1, <1>2, TypeCorrect, ConnectionsAreWatched, PTL DEF Spec

\* With a request time-out below the drain's, no validator that ran when the
\* drain began is cut off.
THEOREM HandlersAreAnswered == ASSUME PatientDrain PROVE Spec => []HandlersFinish
<1>1. TypeOK /\ DrainIsComplete => HandlersFinish
  <2> SUFFICES ASSUME TypeOK, DrainIsComplete, phase = "Returned",
                      NEW c \in Conns, conn[c] = "Handling"
               PROVE  age[c] < drained
    BY DEF HandlersFinish
  <2>1. age[c] \in Nat /\ age[c] <= RequestTimeout /\ drained = DrainTimeout
    BY DEF TypeOK, AgesOK, DrainIsComplete
  <2> QED
    BY <2>1, PatientDrain, TimeoutsAssumption DEF PatientDrain
<1> QED
  BY <1>1, TypeCorrect, DrainEndsInOrder, PTL
=============================================================================
