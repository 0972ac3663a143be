------------------------ MODULE LeaderElection_proofs ------------------------
(***************************************************************************)
(* Theorems about LeaderElection, for every set of replicas and all        *)
(* timings LeaderElectionConfig::validate accepts (and, where it is said,  *)
(* SafeTiming).                                                            *)
(***************************************************************************)
EXTENDS LeaderElection, TLAPS

LEMMA Constants ==
  /\ LeaseDuration \in Nat /\ RenewDeadline \in Nat /\ RetryPeriod \in Nat
  /\ ReadDelay \in Nat /\ ReleaseTimeout \in Nat
  /\ 0 < RetryPeriod /\ RetryPeriod < RenewDeadline
  /\ RenewDeadline < LeaseDuration /\ ReadDelay <= RenewDeadline
  /\ NoOne \notin Replicas /\ NoVersion \notin Versions
  /\ AgeCap \in Nat /\ AgeCap = LeaseDuration + RenewDeadline
  BY ConfigAssumption, NamesAssumption DEF Validate, AgeCap

LEMMA LeaseTypes ==
  /\ NoLease \in Leases
  /\ \A h \in Holders, v \in Versions : LeaseOf(h, v) \in Leases
  BY Constants DEF NoLease, Leases, LeaseOf, Holders, ReleasedDuration

\* Type correctness, the phases and the timers.
PhaseInv == TypeOK /\ PhasesOK /\ TimersOK

LEMMA ExitPhase ==
  ASSUME NEW r \in Replicas, NEW how \in {"Down", "Stopped"},
         PhaseInv, Exit(r, how)
  PROVE  PhaseInv'
<1> USE DEF PhaseInv
<1>1. TypeOK'
  BY Constants, LeaseTypes DEF TypeOK, Exit, Abandon, Proposal, Holders, Roles, Steps, NothingObserved
<1>2. PhasesOK'
  BY DEF PhasesOK, TypeOK, Exit, Running, Attempting
<1>3. TimersOK'
  BY DEF TimersOK, TypeOK, Exit, Attempting, Leading
<1> QED BY <1>1, <1>2, <1>3

LEMMA RestPhase ==
  ASSUME NEW r \in Replicas, Running(r), role[r] # "Releasing",
         PhaseInv, Rest(r), step[r] # "Sleep",
         UNCHANGED role, orphans' \subseteq Holders, lease' = lease,
         UNCHANGED renewed,
         observed' \in [Replicas -> [rv : Versions \cup {NoVersion},
                                     age : 0 .. AgeCap, dur : Nat]]
  PROVE  PhaseInv'
<1> USE DEF PhaseInv
<1>1. TypeOK'
  BY Constants, LeaseTypes DEF TypeOK, Rest, Steps
<1>2. PhasesOK'
  BY DEF PhasesOK, TypeOK, Rest, Running, Attempting
<1>3. TimersOK'
  BY Constants DEF TimersOK, PhasesOK, TypeOK, Rest, Attempting, Leading, Running
<1> QED BY <1>1, <1>2, <1>3

LEMMA BeginPhase ==
  ASSUME NEW r \in Replicas, PhaseInv, BeginAttempt(r),
         lease' = lease, orphans' \subseteq Holders,
         NEW to \in {"Candidate", "Leader", "Draining", "Releasing"},
         role' = [role EXCEPT ![r] = to],
         renewed' = renewed \/ renewed' = [renewed EXCEPT ![r] = 0],
         to \in {"Leader", "Draining"} =>
           Leading(r) /\ renewed[r] < RenewDeadline,
         UNCHANGED observed
  PROVE  PhaseInv'
<1> USE DEF PhaseInv
<1>1. TypeOK'
  BY Constants, LeaseTypes DEF TypeOK, BeginAttempt, Steps, Roles
<1>2. PhasesOK'
  BY DEF PhasesOK, TypeOK, BeginAttempt, Running, Attempting
<1>3. TimersOK'
  BY Constants DEF TimersOK, TypeOK, BeginAttempt, Attempting, Leading
<1> QED BY <1>1, <1>2, <1>3

\* An attempt goes on to its next step.
LEMMA StepPhase ==
  ASSUME NEW r \in Replicas, PhaseInv, Attempting(r),
         NEW to \in {"Get", "Got", "Write", "Accepted", "Rejected"},
         step' = [step EXCEPT ![r] = to],
         lease' \in Leases, orphans' \subseteq Holders,
         copy' \in [Replicas -> Leases],
         observed' \in [Replicas -> [rv : Versions \cup {NoVersion},
                                     age : 0 .. AgeCap, dur : Nat]],
         UNCHANGED <<role, timer, renewed>>
  PROVE  PhaseInv'
<1> USE DEF PhaseInv
<1>1. TypeOK'
  BY Constants DEF TypeOK, Steps
<1>2. PhasesOK'
  BY DEF PhasesOK, TypeOK, Running, Attempting
<1>3. TimersOK'
  BY Constants DEF TimersOK, TypeOK, Attempting, Leading
<1> QED BY <1>1, <1>2, <1>3

Observations == [rv : Versions \cup {NoVersion}, age : 0 .. AgeCap, dur : Nat]

LEMMA ElectingTimer ==
  ASSUME NEW r \in Replicas, PhaseInv, Electing(r), Attempting(r)
  PROVE  timer[r] \in 0 .. RenewDeadline
BY Constants DEF PhaseInv, TypeOK, TimersOK, Electing, Leading

LEMMA ObserveType ==
  ASSUME NEW r \in Replicas, PhaseInv, Electing(r), Attempting(r)
  PROVE  /\ Observe(observed[r], copy[r], timer[r]) \in Observations
         /\ Seen(r) \in Observations
<1>1. observed[r] \in Observations /\ copy[r] \in Leases
  BY DEF PhaseInv, TypeOK, Observations
<1>2. timer[r] \in 0 .. AgeCap
  BY ElectingTimer, Constants
<1> QED BY <1>1, <1>2 DEF Observe, Seen, Observations, Leases

LEMMA StoreType ==
  ASSUME NEW h \in Holders, Store(h)
  PROVE  /\ lease' \in Leases
         /\ orphans' = {}
         /\ lease'.rv \in FreshVersions
         /\ lease'.holder = h
         /\ \E v \in FreshVersions : lease' = LeaseOf(h, v)
<1>1. PICK v \in FreshVersions : lease' = LeaseOf(h, v)
  BY DEF Store
<1>2. v \in Versions
  BY DEF FreshVersions
<1>3. lease' \in Leases
  BY <1>1, <1>2, LeaseTypes
<1>4. lease'.rv = v /\ lease'.holder = h
  BY <1>1 DEF LeaseOf
<1>5. orphans' = {}
  BY DEF Store
<1> QED BY <1>1, <1>3, <1>4, <1>5

LEMMA TickPhase ==
  ASSUME PhaseInv, Tick PROVE PhaseInv'
<1> USE DEF PhaseInv
<1>1. ASSUME NEW r \in Replicas, Leading(r)
      PROVE  renewed[r] + 1 <= RenewDeadline + RetryPeriod
  <2>1. ~TimerDue(r) /\ timer[r] \in Nat /\ renewed[r] \in Nat
    BY Constants DEF Tick, TypeOK
  <2>2. CASE Attempting(r)
    BY <1>1, <2>1, <2>2, Constants DEF TimerDue, TimeoutDue, TimersOK
  <2>3. CASE step[r] = "Sleep"
    BY <1>1, <2>1, <2>3, Constants DEF TimerDue, TimersOK
  <2>4. step[r] # "Idle"
    BY <1>1 DEF PhasesOK, Running, Leading
  <2> QED BY <2>2, <2>3, <2>4 DEF Attempting
<1>2. TypeOK'
  <2>1. renewed' \in [Replicas -> 0 .. RenewDeadline + RetryPeriod]
    <3> SUFFICES ASSUME NEW r \in Replicas
                 PROVE  renewed[r] + (IF Leading(r) THEN 1 ELSE 0)
                          \in 0 .. RenewDeadline + RetryPeriod
      BY DEF Tick
    <3>1. renewed[r] \in 0 .. RenewDeadline + RetryPeriod
      BY DEF TypeOK
    <3> QED BY <1>1, <3>1, Constants
  <2>2. observed' \in [Replicas -> Observations]
    <3> SUFFICES ASSUME NEW r \in Replicas
                 PROVE  [observed[r] EXCEPT
                           !.age = IF observed[r].rv = NoVersion
                                        \/ observed[r].age = AgeCap
                                   THEN observed[r].age
                                   ELSE observed[r].age + 1] \in Observations
      BY DEF Tick
    <3>1. observed[r] \in Observations
      BY DEF TypeOK, Observations
    <3>2. observed[r].age \in 0 .. AgeCap
      BY <3>1 DEF Observations
    <3>3. \A a \in 0 .. AgeCap :
            [observed[r] EXCEPT !.age = a] \in Observations
      BY <3>1 DEF Observations
    <3>4. (IF observed[r].rv = NoVersion \/ observed[r].age = AgeCap
           THEN observed[r].age ELSE observed[r].age + 1) \in 0 .. AgeCap
      BY <3>2, Constants
    <3> QED BY <3>3, <3>4
  <2>3. timer' \in [Replicas -> Nat]
    BY DEF TypeOK, Tick
  <2> QED BY <2>1, <2>2, <2>3 DEF TypeOK, Tick, Observations
<1>3. PhasesOK'
  BY DEF PhasesOK, Tick, Running, Attempting
<1>4. TimersOK'
  <2> SUFFICES ASSUME NEW r \in Replicas
               PROVE  TimersOK!(r)'
    BY DEF TimersOK
  <2>1. timer'[r] = timer[r] + (IF Running(r) THEN 1 ELSE 0)
        /\ renewed'[r] = renewed[r] + (IF Leading(r) THEN 1 ELSE 0)
        /\ ~TimerDue(r) /\ role' = role /\ step' = step
    BY DEF Tick
  <2> QED
    BY <2>1, Constants DEF TimersOK, TypeOK, TimerDue, TimeoutDue, Leading, Running, Attempting
<1> QED BY <1>2, <1>3, <1>4

LEMMA HeldPhase ==
  ASSUME NEW r \in Replicas, PhaseInv, Held(r) PROVE PhaseInv'
<1> USE DEF PhaseInv
<1>1. Attempting(r) /\ timer[r] \in 0 .. RenewDeadline /\ Running(r)
  BY ElectingTimer DEF Held, Attempting, Running, Electing, Leading
<1>2. Observe(observed[r], copy[r], timer[r]) \in Observations
  BY <1>1, ObserveType DEF Held
<1>3. TypeOK'
  <2>1. observed' \in [Replicas -> Observations]
    BY <1>2 DEF TypeOK, Held, Observations
  <2>2. renewed' \in [Replicas -> 0 .. RenewDeadline + RetryPeriod]
    BY <1>1, Constants DEF TypeOK, Held
  <2>3. copy' \in [Replicas -> Leases]
    BY LeaseTypes DEF TypeOK, Held, Rest
  <2>4. /\ role' \in [Replicas -> Roles] /\ step' \in [Replicas -> Steps]
        /\ timer' \in [Replicas -> Nat]
    BY DEF TypeOK, Held, Rest, Roles, Steps
  <2> QED BY <2>1, <2>2, <2>3, <2>4 DEF TypeOK, Held, Observations
<1>4. PhasesOK'
  BY <1>1 DEF PhasesOK, TypeOK, Held, Rest, Running, Attempting, Electing, Leading
<1>5. TimersOK'
  BY <1>1, Constants DEF TimersOK, TypeOK, Held, Rest, Attempting, Leading
<1> QED BY <1>3, <1>4, <1>5

LEMMA AbandonType ==
  ASSUME NEW r \in Replicas, PhaseInv, Abandon(r)
  PROVE  orphans' \subseteq Holders
BY DEF PhaseInv, TypeOK, Abandon, Proposal, Holders

LEMMA PhaseStep ==
  ASSUME PhaseInv, [Next]_vars PROVE PhaseInv'
<1> USE DEF PhaseInv
<1>t. /\ lease \in Leases /\ orphans \subseteq Holders
      /\ role \in [Replicas -> Roles] /\ step \in [Replicas -> Steps]
      /\ observed \in [Replicas -> Observations]
      /\ copy \in [Replicas -> Leases]
  BY DEF TypeOK, Observations
<1>0. CASE UNCHANGED vars
  BY <1>0 DEF vars, TypeOK, PhasesOK, TimersOK, Running, Attempting, Leading
<1>1. CASE Tick
  BY <1>1, TickPhase
<1>2. CASE LandOrphan
  <2>1. PICK h \in orphans : Store(h)
    BY <1>2 DEF LandOrphan
  <2>2. h \in Holders
    BY <1>t
  <2>3. lease' \in Leases /\ orphans' \subseteq Holders
    BY <2>1, <2>2, StoreType
  <2> QED
    BY <1>2, <2>3 DEF LandOrphan, TypeOK, PhasesOK, TimersOK, Running, Attempting, Leading
<1>3. ASSUME NEW r \in Replicas, ReplicaStep(r) PROVE PhaseInv'
  <2>1. CASE Start(r)
    <3>1. role' = [role EXCEPT ![r] = "Candidate"] /\ renewed' = renewed
      BY <2>1 DEF Start
    <3>2. BeginAttempt(r) /\ lease' = lease /\ orphans' \subseteq Holders /\ observed' = observed
      BY <2>1, <1>t DEF Start
    <3> QED BY <3>1, <3>2, BeginPhase
  <2>2. CASE Wake(r)
    <3>1. role[r] \in {"Candidate", "Leader", "Draining"}
      BY <2>2, <1>t DEF Wake, PhasesOK, Attempting, Running, Roles
    <3>2. role' = [role EXCEPT ![r] = role[r]]
      BY <2>2, <1>t DEF Wake
    <3>3. role[r] \in {"Leader", "Draining"} => Leading(r) /\ renewed[r] < RenewDeadline
      BY <2>2 DEF Wake, Leading
    <3>4. /\ BeginAttempt(r) /\ lease' = lease /\ orphans' \subseteq Holders
          /\ renewed' = renewed /\ observed' = observed
      BY <2>2, <1>t DEF Wake
    <3> QED BY <3>1, <3>2, <3>3, <3>4, BeginPhase
  <2>3. CASE GiveUp(r)
    BY <2>3, ExitPhase DEF GiveUp
  <2>4. CASE YieldToHolder(r)
    <3>1. CASE Leading(r)
      BY <2>4, <3>1, ExitPhase DEF YieldToHolder
    <3>2. CASE ~Leading(r)
      <4>1. Attempting(r) /\ step[r] # "Sleep" /\ Running(r) /\ role[r] # "Releasing"
        BY <2>4, <3>2 DEF YieldToHolder, Attempting, Electing, Running, Leading
      <4>2. Seen(r) \in Observations
        BY <2>4, <4>1, ObserveType DEF YieldToHolder
      <4>3. observed' \in [Replicas -> Observations]
        BY <2>4, <3>2, <4>2, <1>t DEF YieldToHolder
      <4>4. Rest(r) /\ UNCHANGED <<lease, orphans, role, renewed>>
        BY <2>4, <3>2 DEF YieldToHolder
      <4> QED BY <4>1, <4>3, <4>4, <1>t, RestPhase DEF Observations
    <3> QED BY <3>1, <3>2
  <2>5. CASE SendClaim(r)
    <3>1. Attempting(r)
      BY <2>5 DEF SendClaim, Attempting
    <3>2. Seen(r) \in Observations
      BY <2>5, <3>1, ObserveType DEF SendClaim
    <3>3. observed' \in [Replicas -> Observations]
      BY <2>5, <3>2, <1>t DEF SendClaim
    <3> QED BY <2>5, <3>1, <3>3, <1>t, StepPhase DEF SendClaim, Observations
  <2>6. CASE SendRelease(r)
    BY <2>6, <1>t, StepPhase DEF SendRelease, Attempting, Observations
  <2>7. CASE SkipRelease(r)
    BY <2>7, ExitPhase DEF SkipRelease
  <2>8. CASE Held(r)
    BY <2>8, HeldPhase
  <2>9. CASE Released(r)
    BY <2>9, ExitPhase DEF Released
  <2>10. CASE Conflict(r)
    <3>1. CASE role[r] = "Releasing"
      BY <2>10, <3>1, ExitPhase DEF Conflict
    <3>2. CASE role[r] # "Releasing"
      <4>1. step[r] # "Sleep" /\ Running(r)
        BY <2>10 DEF Conflict, PhasesOK
      <4> QED BY <2>10, <3>2, <4>1, <1>t, RestPhase DEF Conflict, Observations
    <3> QED BY <3>1, <3>2
  <2>11. CASE Timeout(r)
    <3>1. CASE role[r] = "Candidate"
      <4>1. step[r] # "Sleep" /\ Running(r)
        BY <2>11, <3>1 DEF Timeout, TimeoutDue, Attempting, Running
      <4>2. Rest(r) /\ Abandon(r) /\ UNCHANGED <<lease, role, renewed, observed>>
        BY <2>11, <3>1 DEF Timeout, Leading
      <4> QED BY <3>1, <4>1, <4>2, <1>t, AbandonType, RestPhase DEF Observations
    <3>2. CASE role[r] # "Candidate"
      <4>1. Exit(r, "Down") \/ Exit(r, "Stopped")
        BY <2>11, <3>2 DEF Timeout
      <4> QED BY <4>1, ExitPhase
    <3> QED BY <3>1, <3>2
  <2>12. CASE Drained(r)
    <3>1. orphans' \subseteq Holders
      BY <2>12, AbandonType DEF Drained
    <3> QED BY <2>12, <3>1, BeginPhase DEF Drained
  <2> QED
    BY <1>3, <2>1, <2>2, <2>3, <2>4, <2>5, <2>6, <2>7, <2>8, <2>9, <2>10, <2>11, <2>12
       DEF ReplicaStep
<1>4. ASSUME NEW r \in Replicas, ServerStep(r) PROVE PhaseInv'
  <2>1. CASE ServeGet(r)
    <3>1. copy' \in [Replicas -> Leases]
      BY <2>1, <1>t DEF ServeGet
    <3> QED BY <2>1, <3>1, <1>t, StepPhase DEF ServeGet, Attempting, Observations
  <2>2. CASE AcceptWrite(r)
    <3>1. Proposal(r) \in Holders
      BY DEF Proposal, Holders
    <3>2. lease' \in Leases /\ orphans' \subseteq Holders
      BY <2>2, <3>1, StoreType DEF AcceptWrite
    <3>3. copy' \in [Replicas -> Leases]
      BY <2>2, <3>2, <1>t DEF AcceptWrite
    <3> QED BY <2>2, <3>2, <3>3, <1>t, StepPhase DEF AcceptWrite, Attempting, Observations
  <2>3. CASE RejectWrite(r)
    BY <2>3, <1>t, StepPhase DEF RejectWrite, Attempting, Observations
  <2> QED BY <1>4, <2>1, <2>2, <2>3 DEF ServerStep
<1>5. ASSUME NEW r \in Replicas, FaultStep(r) PROVE PhaseInv'
  <2>1. CASE Fail(r)
    <3>1. CASE role[r] = "Releasing"
      BY <2>1, <3>1, ExitPhase DEF Fail
    <3>2. CASE role[r] # "Releasing"
      <4>1. step[r] # "Sleep" /\ Running(r)
        BY <2>1 DEF Fail, Attempting, PhasesOK
      <4> QED BY <2>1, <3>2, <4>1, <1>t, AbandonType, RestPhase DEF Fail, Observations
    <3> QED BY <3>1, <3>2
  <2>2. CASE Crash(r)
    BY <2>2, ExitPhase DEF Crash
  <2>3. CASE Shutdown(r)
    <3>1. CASE role[r] = "Candidate" /\ Exit(r, "Stopped")
      BY <3>1, ExitPhase
    <3>2. CASE role[r] = "Leader" /\ role' = [role EXCEPT ![r] = "Draining"]
               /\ UNCHANGED <<lease, orphans, step, timer, renewed, observed, copy>>
      BY <3>2 DEF TypeOK, Roles, PhasesOK, TimersOK, Running, Attempting, Leading
    <3> QED BY <2>3, <3>1, <3>2 DEF Shutdown
  <2> QED BY <1>5, <2>1, <2>2, <2>3 DEF FaultStep
<1> QED BY <1>0, <1>1, <1>2, <1>3, <1>4, <1>5 DEF Next

-----------------------------------------------------------------------------
LEMMA FreshStore ==
  ASSUME NEW h \in Holders, Store(h)
  PROVE  /\ lease'.rv # NoVersion
         /\ lease'.rv # lease.rv
         /\ \A r \in Replicas : lease'.rv # observed[r].rv /\ lease'.rv # copy[r].rv
<1>1. lease'.rv \in FreshVersions
  BY StoreType
<1> QED BY <1>1, Constants DEF FreshVersions, UsedVersions

\* What a step that leaves the lease alone may do with versions.
LEMMA VersionsKept ==
  ASSUME VersionsOK, lease' = lease,
         \A s \in Replicas : copy'[s] \in {copy[s], NoLease, lease},
         \A s \in Replicas :
           \/ observed'[s].rv = observed[s].rv /\ observed'[s].dur = observed[s].dur
           \/ observed'[s].rv = NoVersion /\ observed'[s].dur = LeaseDuration
           \/ observed'[s].rv = copy[s].rv /\ observed'[s].dur = copy[s].dur,
         \A s \in Replicas :
           role'[s] = "Releasing" /\ step'[s] = "Write" => copy'[s].holder = s
  PROVE  VersionsOK'
<1>1. ASSUME NEW s \in Replicas, copy'[s].rv = lease.rv
      PROVE  copy'[s] = lease
  BY <1>1 DEF VersionsOK, NoLease
<1>2. ASSUME NEW s \in Replicas, observed'[s].rv = lease.rv
      PROVE  observed'[s].dur = lease.dur
  BY <1>2 DEF VersionsOK, NoLease
<1> QED BY <1>1, <1>2 DEF VersionsOK

LEMMA VersionsStored ==
  ASSUME VersionsOK, NEW h \in Holders, Store(h),
         \A s \in Replicas : copy'[s] \in {copy[s], lease'},
         observed' = observed,
         \A s \in Replicas :
           role'[s] = "Releasing" /\ step'[s] = "Write" => copy'[s].holder = s
  PROVE  VersionsOK'
<1>1. /\ lease'.rv # NoVersion
      /\ \A r \in Replicas : lease'.rv # observed[r].rv /\ lease'.rv # copy[r].rv
  BY FreshStore
<1>2. PICK v \in FreshVersions : lease' = LeaseOf(h, v)
  BY StoreType
<1>3. lease'.holder # NoOne => lease'.dur = LeaseDuration
  BY <1>2 DEF LeaseOf
<1> QED BY <1>1, <1>3 DEF VersionsOK

LEMMA ObserveVersion ==
  ASSUME NEW r \in Replicas, NEW o, o = Observe(observed[r], copy[r], timer[r]) \/ o = Seen(r)
  PROVE  \/ o = observed[r]
         \/ o.rv = copy[r].rv /\ o.dur = copy[r].dur /\ o.age = timer[r]
BY DEF Observe, Seen

LEMMA ExitVersions ==
  ASSUME NEW r \in Replicas, NEW how \in {"Down", "Stopped"},
         PhaseInv, VersionsOK, Exit(r, how)
  PROVE  VersionsOK'
<1>1. \A s \in Replicas : copy'[s] \in {copy[s], NoLease}
  BY DEF Exit, PhaseInv, TypeOK
<1>2. \A s \in Replicas : observed'[s] \in {observed[s], NothingObserved}
  BY DEF Exit, PhaseInv, TypeOK
<1>3. \A s \in Replicas :
        role'[s] = "Releasing" /\ step'[s] = "Write" =>
          copy'[s] = copy[s] /\ role[s] = "Releasing" /\ step[s] = "Write"
  BY DEF Exit, PhaseInv, TypeOK
<1>4. lease' = lease
  BY DEF Exit
<1>5. \A s \in Replicas :
        role'[s] = "Releasing" /\ step'[s] = "Write" => copy'[s].holder = s
  BY <1>3 DEF VersionsOK
<1> QED BY <1>1, <1>2, <1>4, <1>5, VersionsKept DEF NothingObserved

\* A step of r that ends an attempt, or begins one.
LEMMA TurnVersions ==
  ASSUME NEW r \in Replicas, PhaseInv, VersionsOK,
         Rest(r) \/ BeginAttempt(r), lease' = lease,
         NEW o, observed' = [observed EXCEPT ![r] = o],
         \/ o = observed[r]
         \/ o.rv = copy[r].rv /\ o.dur = copy[r].dur,
         \A s \in Replicas \ {r} : role'[s] = role[s]
  PROVE  VersionsOK'
<1>1. \A s \in Replicas : copy'[s] \in {copy[s], NoLease}
  BY DEF Rest, BeginAttempt, PhaseInv, TypeOK
<1>2. \A s \in Replicas : observed'[s] = IF s = r THEN o ELSE observed[s]
  BY DEF PhaseInv, TypeOK
<1>3. \A s \in Replicas :
        role'[s] = "Releasing" /\ step'[s] = "Write" =>
          copy'[s] = copy[s] /\ role[s] = "Releasing" /\ step[s] = "Write"
  BY DEF Rest, BeginAttempt, PhaseInv, TypeOK
<1>5. \A s \in Replicas :
        role'[s] = "Releasing" /\ step'[s] = "Write" => copy'[s].holder = s
  BY <1>3 DEF VersionsOK
<1> QED BY <1>1, <1>2, <1>5, VersionsKept

LEMMA VersionsStep ==
  ASSUME PhaseInv, VersionsOK, [Next]_vars PROVE VersionsOK'
<1>t. /\ role \in [Replicas -> Roles] /\ step \in [Replicas -> Steps]
      /\ observed \in [Replicas -> Observations]
      /\ copy \in [Replicas -> Leases] /\ orphans \subseteq Holders
  BY DEF PhaseInv, TypeOK, Observations
<1>0. CASE UNCHANGED vars
  BY <1>0 DEF vars, VersionsOK
<1>1. CASE Tick
  <2>1. \A s \in Replicas :
          observed'[s].rv = observed[s].rv /\ observed'[s].dur = observed[s].dur
    BY <1>1, <1>t DEF Tick, Observations
  <2> QED BY <1>1, <2>1 DEF Tick, VersionsOK
<1>2. CASE LandOrphan
  <2>1. PICK h \in orphans : Store(h)
    BY <1>2 DEF LandOrphan
  <2> QED BY <1>2, <2>1, <1>t, VersionsStored DEF LandOrphan, VersionsOK
<1>3. ASSUME NEW r \in Replicas, ReplicaStep(r) PROVE VersionsOK'
  <2>1. CASE Start(r) \/ Wake(r) \/ Drained(r)
    <3>1. /\ BeginAttempt(r) /\ lease' = lease
          /\ observed' = [observed EXCEPT ![r] = observed[r]]
          /\ \A s \in Replicas \ {r} : role'[s] = role[s]
      BY <2>1, <1>t DEF Start, Wake, Drained
    <3> QED BY <3>1, TurnVersions
  <2>2. CASE GiveUp(r) \/ SkipRelease(r) \/ Released(r)
    BY <2>2, ExitVersions DEF GiveUp, SkipRelease, Released
  <2>3. CASE YieldToHolder(r)
    <3>1. CASE Leading(r)
      BY <2>3, <3>1, ExitVersions DEF YieldToHolder
    <3>2. CASE ~Leading(r)
      BY <2>3, <3>2, ObserveVersion, TurnVersions DEF YieldToHolder
    <3> QED BY <3>1, <3>2
  <2>4. CASE SendClaim(r)
    <3>1. observed' = [observed EXCEPT ![r] = Seen(r)] /\ copy' = copy
          /\ role' = role /\ lease' = lease /\ role[r] # "Releasing"
          /\ step' = [step EXCEPT ![r] = "Write"]
      BY <2>4 DEF SendClaim, Electing, Leading
    <3>2. \A s \in Replicas : observed'[s] = IF s = r THEN Seen(r) ELSE observed[s]
      BY <3>1, <1>t
    <3>3. \A s \in Replicas :
            role'[s] = "Releasing" /\ step'[s] = "Write" => copy'[s].holder = s
      BY <3>1, <1>t DEF VersionsOK
    <3> QED BY <3>1, <3>2, <3>3, ObserveVersion, VersionsKept
  <2>5. CASE SendRelease(r)
    <3>1. \A s \in Replicas :
            role'[s] = "Releasing" /\ step'[s] = "Write" => copy'[s].holder = s
      BY <2>5, <1>t DEF SendRelease, VersionsOK
    <3> QED BY <2>5, <3>1 DEF SendRelease, VersionsOK
  <2>6. CASE Held(r)
    <3>1. \A s \in Replicas \ {r} : role'[s] = role[s]
      BY <2>6, <1>t DEF Held
    <3> QED BY <2>6, <3>1, ObserveVersion, TurnVersions DEF Held
  <2>7. CASE Conflict(r)
    <3>1. CASE role[r] = "Releasing"
      BY <2>7, <3>1, ExitVersions DEF Conflict
    <3>2. CASE role[r] # "Releasing"
      <4>1. Rest(r) /\ lease' = lease /\ role' = role
            /\ observed' = [observed EXCEPT ![r] = observed[r]]
        BY <2>7, <3>2, <1>t DEF Conflict
      <4> QED BY <4>1, TurnVersions
    <3> QED BY <3>1, <3>2
  <2>8. CASE Timeout(r)
    <3>1. CASE role[r] = "Candidate"
      <4>1. Rest(r) /\ lease' = lease /\ role' = role
            /\ observed' = [observed EXCEPT ![r] = observed[r]]
        BY <2>8, <3>1, <1>t DEF Timeout, Leading
      <4> QED BY <4>1, TurnVersions
    <3>2. CASE role[r] # "Candidate"
      <4>1. Exit(r, "Down") \/ Exit(r, "Stopped")
        BY <2>8, <3>2 DEF Timeout
      <4> QED BY <4>1, ExitVersions
    <3> QED BY <3>1, <3>2
  <2> QED BY <1>3, <2>1, <2>2, <2>3, <2>4, <2>5, <2>6, <2>7, <2>8 DEF ReplicaStep
<1>4. ASSUME NEW r \in Replicas, ServerStep(r) PROVE VersionsOK'
  <2>1. CASE ServeGet(r)
    <3>1. \A s \in Replicas : copy'[s] \in {copy[s], lease}
      BY <2>1, <1>t DEF ServeGet
    <3>2. \A s \in Replicas :
            role'[s] = "Releasing" /\ step'[s] = "Write" => copy'[s].holder = s
      BY <2>1, <1>t DEF ServeGet, VersionsOK
    <3> QED BY <2>1, <3>1, <3>2, VersionsKept DEF ServeGet
  <2>2. CASE AcceptWrite(r)
    <3>1. \A s \in Replicas : copy'[s] \in {copy[s], lease'}
      BY <2>2, <1>t DEF AcceptWrite
    <3>2. \A s \in Replicas :
            role'[s] = "Releasing" /\ step'[s] = "Write" => copy'[s].holder = s
      BY <2>2, <1>t DEF AcceptWrite, VersionsOK
    <3>3. Proposal(r) \in Holders
      BY DEF Proposal, Holders
    <3> QED BY <2>2, <3>1, <3>2, <3>3, VersionsStored DEF AcceptWrite
  <2>3. CASE RejectWrite(r)
    <3>1. \A s \in Replicas :
            role'[s] = "Releasing" /\ step'[s] = "Write" => copy'[s].holder = s
      BY <2>3, <1>t DEF RejectWrite, VersionsOK
    <3> QED BY <2>3, <3>1 DEF RejectWrite, VersionsOK
  <2> QED BY <1>4, <2>1, <2>2, <2>3 DEF ServerStep
<1>5. ASSUME NEW r \in Replicas, FaultStep(r) PROVE VersionsOK'
  <2>1. CASE Fail(r)
    <3>1. CASE role[r] = "Releasing"
      BY <2>1, <3>1, ExitVersions DEF Fail
    <3>2. CASE role[r] # "Releasing"
      <4>1. Rest(r) /\ lease' = lease /\ role' = role
            /\ observed' = [observed EXCEPT ![r] = observed[r]]
        BY <2>1, <3>2, <1>t DEF Fail
      <4> QED BY <4>1, TurnVersions
    <3> QED BY <3>1, <3>2
  <2>2. CASE Crash(r)
    BY <2>2, ExitVersions DEF Crash
  <2>3. CASE Shutdown(r)
    <3>1. CASE role[r] = "Candidate" /\ Exit(r, "Stopped")
      BY <3>1, ExitVersions
    <3>2. CASE role[r] = "Leader" /\ role' = [role EXCEPT ![r] = "Draining"]
               /\ UNCHANGED <<lease, orphans, step, timer, renewed, observed, copy>>
      <4>1. \A s \in Replicas : role'[s] = "Releasing" => role[s] = "Releasing"
        BY <3>2, <1>t
      <4> QED BY <3>2, <4>1 DEF VersionsOK
    <3> QED BY <2>3, <3>1, <3>2 DEF Shutdown
  <2> QED BY <1>5, <2>1, <2>2, <2>3 DEF FaultStep
<1> QED BY <1>0, <1>1, <1>2, <1>3, <1>4, <1>5 DEF Next

LEMMA BaseInit == Init => BaseInv
<1> SUFFICES ASSUME Init PROVE BaseInv
  OBVIOUS
<1>1. TypeOK
  BY Constants, LeaseTypes DEF Init, TypeOK, Holders, Roles, Steps, NothingObserved
<1>2. PhasesOK /\ TimersOK
  BY DEF Init, PhasesOK, TimersOK, Running, Attempting, Leading
<1>3. VersionsOK
  BY DEF Init, VersionsOK, NoLease, NothingObserved
<1> QED BY <1>1, <1>2, <1>3 DEF BaseInv

LEMMA BaseStep == BaseInv /\ [Next]_vars => BaseInv'
BY PhaseStep, VersionsStep DEF BaseInv, PhaseInv

LEMMA BaseInvariant == Spec => []BaseInv
BY BaseInit, BaseStep, PTL DEF Spec

\* Every variable keeps its type; in particular no leader ever runs on for more
\* than RenewDeadline + RetryPeriod after the start of its last renewal
\* (renew_until_lost, leader.rs:297-339), whatever is lost, slow or crashes.
THEOREM TypeCorrect == Spec => []TypeOK
<1>1. BaseInv => TypeOK
  BY DEF BaseInv
<1> QED BY <1>1, BaseInvariant, PTL

\* A release that the API server stores replaces a lease that names the
\* releasing replica (leader.rs:341-370): it never overwrites another's lease.
\* No assumption on the timings is needed: the resourceVersion guard does it.
THEOREM ReleaseSafe == Spec => ReleaseReplacesOwnLease
<1>1. ASSUME BaseInv, [Next]_vars, NEW r \in Replicas,
             role[r] = "Releasing", step[r] = "Write", step'[r] = "Accepted"
      PROVE  lease.holder = r
  <2>t. step \in [Replicas -> Steps]
    BY <1>1 DEF BaseInv, TypeOK
  <2>1. copy[r].rv = lease.rv
    BY <1>1, <2>t DEF Next, vars, Tick, LandOrphan, ReplicaStep, ServerStep, FaultStep,
      Start, Wake, GiveUp, YieldToHolder, SendClaim, SendRelease, SkipRelease, Held,
      Released, Conflict, Timeout, Drained, ServeGet, AcceptWrite, RejectWrite, Fail,
      Crash, Shutdown, Exit, Rest, BeginAttempt
  <2> QED BY <1>1, <2>1 DEF BaseInv, VersionsOK
<1>2. BaseInv /\ [Next]_vars =>
        [\A r \in Replicas :
           role[r] = "Releasing" /\ step[r] = "Write" /\ step'[r] = "Accepted"
             => lease.holder = r]_vars
  BY <1>1
<1> QED BY <1>2, BaseInvariant, PTL DEF Spec, ReleaseReplacesOwnLease

-----------------------------------------------------------------------------
\* From here on: no two leaders.

LEMMA ActingFacts ==
  ASSUME BaseInv, NEW r \in Replicas, Acting(r), ClaimSafe(r)
  PROVE  /\ lease.rv # NoVersion /\ lease.dur = LeaseDuration
         /\ ClaimAge(r) \in 0 .. RenewDeadline + RetryPeriod
         /\ role[r] # "Releasing" /\ Running(r)
<1>1. lease.holder = r /\ r # NoOne
  BY Constants DEF ClaimSafe
<1>2. lease.rv # NoVersion /\ lease.dur = LeaseDuration
  BY <1>1 DEF BaseInv, VersionsOK, NoLease
<1>3. role[r] # "Releasing" /\ Running(r)
  BY DEF Acting, Leading, Running
<1>4. timer[r] \in Nat /\ renewed[r] \in 0 .. RenewDeadline + RetryPeriod
  BY DEF BaseInv, TypeOK
<1>5. step[r] = "Accepted" => timer[r] <= RenewDeadline
  BY <1>4, Constants DEF BaseInv, TimersOK, Attempting, Acting
<1>6. ClaimAge(r) \in 0 .. RenewDeadline + RetryPeriod
  BY <1>4, <1>5, Constants DEF ClaimAge
<1> QED BY <1>2, <1>3, <1>6

\* At most one replica acts.
LEMMA OneActs ==
  ASSUME ClaimsSafe, NEW r \in Replicas, NEW s \in Replicas, Acting(r), Acting(s)
  PROVE  r = s
BY DEF ClaimsSafe, ClaimSafe

\* The heart of the matter: while r acts, the reply another replica s has to
\* its GET either shows an older version or makes s yield.
LEMMA OthersYield ==
  ASSUME SafeTiming, BaseInv, ClaimsSafe,
         NEW r \in Replicas, NEW s \in Replicas, s # r, Acting(r),
         Electing(s), step[s] = "Got", copy[s].rv = lease.rv
  PROVE  HeldByOther(s)
<1> USE Constants
<1>1. ClaimSafe(r)
  BY DEF ClaimsSafe
<1>2. /\ lease.rv # NoVersion /\ lease.dur = LeaseDuration
      /\ ClaimAge(r) \in 0 .. RenewDeadline + RetryPeriod
  BY <1>1, ActingFacts
<1>3. copy[s] = lease /\ lease.holder = r
  BY <1>1 DEF BaseInv, VersionsOK, ClaimSafe
<1>4. timer[s] \in Nat /\ observed[s].age \in Nat
  BY DEF BaseInv, TypeOK
<1>5. CASE observed[s].rv = lease.rv
  <2>1. observed[s].age <= ClaimAge(r) + ReadDelay
    BY <1>1, <1>5 DEF ClaimSafe
  <2>2. observed[s].dur = LeaseDuration
    BY <1>2, <1>5 DEF BaseInv, VersionsOK
  <2>3. Seen(s) = observed[s]
    BY <1>3, <1>5 DEF Seen, Observe
  <2>4. ~Expired(observed[s], timer[s])
    BY <1>2, <1>4, <1>5, <2>1, <2>2 DEF Expired, SafeTiming
  <2> QED BY <1>3, <2>3, <2>4 DEF HeldByOther
<1>6. CASE observed[s].rv # lease.rv
  <2>1. Seen(s) = [rv |-> lease.rv, age |-> timer[s], dur |-> LeaseDuration]
    BY <1>2, <1>3, <1>6 DEF Seen, Observe
  <2>2. ~Expired(Seen(s), timer[s])
    BY <1>2, <1>4, <2>1 DEF Expired
  <2> QED BY <1>3, <2>2 DEF HeldByOther
<1> QED BY <1>5, <1>6

\* If r acts and goes on acting through a step that leaves the lease alone, it
\* stays safe: no write on the current version appears, its claim does not get
\* younger, and what another replica reads or observes of the current version
\* it reads within ReadDelay.
LEMMA ClaimKept ==
  ASSUME BaseInv, BaseInv', ClaimsSafe, NEW r \in Replicas, Acting(r),
         lease' = lease, orphans' \subseteq orphans \cup {r},
         ClaimAge(r)' >= ClaimAge(r),
         \A s \in Replicas \ {r} :
           /\ step'[s] = "Write" /\ copy'[s].rv = lease.rv =>
                step[s] = "Write" /\ copy[s].rv = lease.rv
           /\ observed'[s].rv = lease.rv =>
                \/ observed[s].rv = lease.rv /\ observed'[s].age = observed[s].age
                \/ observed'[s].age = timer[s] /\ copy[s].rv = lease.rv
                     /\ Electing(s) /\ step[s] = "Got"
           /\ Electing(s)' /\ step'[s] = "Got" /\ copy'[s].rv = lease.rv =>
                \/ Electing(s) /\ step[s] = "Got" /\ copy[s].rv = lease.rv
                     /\ timer'[s] = timer[s]
                \/ timer'[s] <= ReadDelay
  PROVE  ClaimSafe(r)'
<1> USE Constants
<1>1. ClaimSafe(r)
  BY DEF ClaimsSafe
<1>2. ClaimAge(r) \in Nat
  BY <1>1, ActingFacts
<1>3. ASSUME NEW s \in Replicas \ {r}
      PROVE  /\ step'[s] = "Write" => copy'[s].rv # lease.rv
             /\ observed'[s].rv = lease.rv =>
                  observed'[s].age <= ClaimAge(r)' + ReadDelay
             /\ Electing(s)' /\ step'[s] = "Got" /\ copy'[s].rv = lease.rv =>
                  timer'[s] <= ClaimAge(r)' + ReadDelay
  <2>1. /\ timer[s] \in Nat /\ observed[s].age \in Nat /\ timer'[s] \in Nat
        /\ ClaimAge(r)' \in Nat
    BY DEF BaseInv, TypeOK, ClaimAge
  <2>2. step'[s] = "Write" => copy'[s].rv # lease.rv
    BY <1>1, <1>3 DEF ClaimSafe
  <2>3. ASSUME observed'[s].rv = lease.rv
        PROVE  observed'[s].age <= ClaimAge(r)' + ReadDelay
    <3>1. CASE observed[s].rv = lease.rv /\ observed'[s].age = observed[s].age
      BY <1>1, <1>2, <2>1, <3>1 DEF ClaimSafe
    <3>2. CASE observed'[s].age = timer[s] /\ copy[s].rv = lease.rv
                 /\ Electing(s) /\ step[s] = "Got"
      BY <1>1, <1>2, <2>1, <3>2 DEF ClaimSafe
    <3> QED BY <2>3, <3>1, <3>2
  <2>4. ASSUME Electing(s)', step'[s] = "Got", copy'[s].rv = lease.rv
        PROVE  timer'[s] <= ClaimAge(r)' + ReadDelay
    <3>1. CASE Electing(s) /\ step[s] = "Got" /\ copy[s].rv = lease.rv
                 /\ timer'[s] = timer[s]
      BY <1>1, <1>2, <2>1, <3>1 DEF ClaimSafe
    <3>2. CASE timer'[s] <= ReadDelay
      BY <1>2, <2>1, <3>2
    <3> QED BY <2>4, <3>1, <3>2
  <2> QED BY <2>2, <2>3, <2>4
<1>4. lease'.holder = r /\ orphans' \subseteq {r}
  BY <1>1 DEF ClaimSafe
<1> QED BY <1>3, <1>4 DEF ClaimSafe

Same(s) ==
  /\ role'[s] = role[s] /\ step'[s] = step[s] /\ timer'[s] = timer[s]
  /\ renewed'[s] = renewed[s] /\ observed'[s] = observed[s] /\ copy'[s] = copy[s]

\* A step of replica q touches no other replica.
LEMMA Frame ==
  ASSUME BaseInv, NEW q \in Replicas, ReplicaStep(q) \/ ServerStep(q) \/ FaultStep(q),
         NEW s \in Replicas, s # q
  PROVE  Same(s)
<1>t. /\ role \in [Replicas -> Roles] /\ step \in [Replicas -> Steps]
      /\ observed \in [Replicas -> Observations]
      /\ copy \in [Replicas -> Leases] /\ timer \in [Replicas -> Nat]
      /\ renewed \in [Replicas -> 0 .. RenewDeadline + RetryPeriod]
  BY DEF BaseInv, TypeOK, Observations
<1> USE <1>t DEF Same
<1>1. ASSUME NEW how, Exit(q, how) PROVE Same(s)
  BY <1>1 DEF Exit
<1>2. CASE ReplicaStep(q)
  BY <1>1, <1>2 DEF ReplicaStep, Start, Wake, GiveUp, YieldToHolder, SendClaim, SendRelease,
    SkipRelease, Held, Released, Conflict, Timeout, Drained, Rest, BeginAttempt
<1>3. CASE ServerStep(q)
  BY <1>3 DEF ServerStep, ServeGet, AcceptWrite, RejectWrite
<1>4. CASE FaultStep(q)
  BY <1>1, <1>4 DEF FaultStep, Fail, Crash, Shutdown, Rest
<1> QED BY <1>2, <1>3, <1>4

LEMMA OwnClaim ==
  ASSUME BaseInv, BaseInv', ClaimsSafe, NEW r \in Replicas, Acting(r),
         lease' = lease, orphans' \subseteq orphans \cup {r},
         ClaimAge(r)' >= ClaimAge(r),
         \A s \in Replicas : s # r => Same(s)
  PROVE  ClaimSafe(r)'
BY ClaimKept DEF Same, Electing, Leading

LEMMA OthersClaim ==
  ASSUME BaseInv, BaseInv', ClaimsSafe, NEW r \in Replicas, Acting(r),
         lease' = lease, orphans' \subseteq orphans,
         NEW q \in Replicas, q # r, \A s \in Replicas : s # q => Same(s),
         step'[q] = "Write" => copy'[q].rv # lease.rv,
         observed'[q].rv = lease.rv =>
           \/ observed'[q] = observed[q]
           \/ observed'[q].age = timer[q] /\ copy[q].rv = lease.rv
                /\ Electing(q) /\ step[q] = "Got",
         Electing(q)' /\ step'[q] = "Got" /\ copy'[q].rv = lease.rv =>
           \/ role'[q] = role[q] /\ step[q] = "Got" /\ copy'[q] = copy[q]
                /\ timer'[q] = timer[q]
           \/ timer'[q] <= ReadDelay
  PROVE  ClaimSafe(r)'
<1>1. ClaimAge(r)' = ClaimAge(r) /\ ClaimAge(r) \in Nat
  BY DEF Same, ClaimAge, BaseInv, TypeOK
<1>2. \A s \in Replicas \ {r} :
           /\ step'[s] = "Write" /\ copy'[s].rv = lease.rv =>
                step[s] = "Write" /\ copy[s].rv = lease.rv
           /\ observed'[s].rv = lease.rv =>
                \/ observed[s].rv = lease.rv /\ observed'[s].age = observed[s].age
                \/ observed'[s].age = timer[s] /\ copy[s].rv = lease.rv
                     /\ Electing(s) /\ step[s] = "Got"
           /\ Electing(s)' /\ step'[s] = "Got" /\ copy'[s].rv = lease.rv =>
                \/ Electing(s) /\ step[s] = "Got" /\ copy[s].rv = lease.rv
                     /\ timer'[s] = timer[s]
                \/ timer'[s] <= ReadDelay
  BY DEF Same, Electing, Leading
<1> QED BY <1>1, <1>2, ClaimKept

\* The write that makes the claim of r, or renews it.
LEMMA StoredClaim ==
  ASSUME BaseInv, BaseInv', NEW r \in Replicas, Store(r), observed' = observed,
         \A s \in Replicas \ {r} : copy'[s] = copy[s]
  PROVE  ClaimSafe(r)'
<1>1. r \in Holders
  BY DEF Holders
<1>2. lease'.holder = r /\ orphans' = {}
  BY <1>1, StoreType
<1>3. \A s \in Replicas : lease'.rv # observed[s].rv /\ lease'.rv # copy[s].rv
  BY <1>1, FreshStore
<1> QED BY <1>2, <1>3 DEF ClaimSafe

LEMMA TickClaim ==
  ASSUME BaseInv, BaseInv', ClaimsSafe, Tick, NEW r \in Replicas, Acting(r)
  PROVE  ClaimSafe(r)'
<1> USE Constants
<1>1. ClaimSafe(r)
  BY DEF ClaimsSafe
<1>2. ClaimAge(r)' = ClaimAge(r) + 1 /\ ClaimAge(r) \in Nat
  <2>1. Running(r) /\ timer'[r] = timer[r] + 1
    BY <1>1, ActingFacts DEF Tick
  <2>2. step[r] # "Accepted" => Leading(r)
    BY DEF Acting
  <2>3. Leading(r) => renewed'[r] = renewed[r] + 1
    BY DEF Tick
  <2> QED BY <2>1, <2>2, <2>3 DEF Tick, ClaimAge, BaseInv, TypeOK
<1>3. ASSUME NEW s \in Replicas \ {r}
      PROVE  /\ observed'[s].rv = observed[s].rv
             /\ observed'[s].age <= observed[s].age + 1
             /\ timer'[s] <= timer[s] + 1
             /\ observed[s].age \in Nat /\ timer[s] \in Nat
             /\ observed'[s].age \in Nat /\ timer'[s] \in Nat
  <2>1. observed[s] \in Observations /\ timer[s] \in Nat
    BY DEF BaseInv, TypeOK, Observations
  <2>2. observed[s].age \in 0 .. AgeCap
    BY <2>1 DEF Observations
  <2> QED BY <2>1, <2>2 DEF Tick, Observations
<1> QED BY <1>1, <1>2, <1>3 DEF ClaimSafe, Tick, Electing, Leading

\* A step of r itself that leaves the lease alone and r acting.
LEMMA OwnStep ==
  ASSUME BaseInv, BaseInv', ClaimsSafe, NEW r \in Replicas, Acting(r)',
         ReplicaStep(r) \/ ServerStep(r) \/ FaultStep(r), ~AcceptWrite(r)
  PROVE  ClaimSafe(r)'
<1>t. /\ role \in [Replicas -> Roles] /\ step \in [Replicas -> Steps]
      /\ timer \in [Replicas -> Nat]
      /\ renewed \in [Replicas -> 0 .. RenewDeadline + RetryPeriod]
  BY DEF BaseInv, TypeOK
<1>f. \A s \in Replicas : s # r => Same(s)
  BY Frame
<1>e. ASSUME NEW how \in {"Down", "Stopped"}, Exit(r, how) PROVE FALSE
  BY <1>e, <1>t DEF Exit, Acting, Leading
<1>1. ASSUME Acting(r), lease' = lease, orphans' \subseteq orphans \cup {r},
             ClaimAge(r)' >= ClaimAge(r)
      PROVE  ClaimSafe(r)'
  BY <1>1, <1>f, OwnClaim
<1>a. renewed[r] \in Nat /\ timer[r] \in Nat
  BY <1>t, Constants
<1>2. CASE Start(r) \/ Drained(r)
  BY <1>2, <1>t DEF Start, Drained, BeginAttempt, Acting, Leading
<1>3. CASE Wake(r)
  <2>1. Acting(r)
    BY <1>3, <1>t DEF Wake, BeginAttempt, Acting, Leading
  <2>2. ClaimAge(r)' = ClaimAge(r)
    BY <1>3, <1>t DEF Wake, BeginAttempt, ClaimAge
  <2> QED BY <1>1, <1>3, <1>a, <2>1, <2>2 DEF Wake, ClaimAge
<1>4. CASE GiveUp(r) \/ SkipRelease(r) \/ Released(r) \/ Crash(r)
  BY <1>4, <1>e DEF GiveUp, SkipRelease, Released, Crash
<1>5. CASE YieldToHolder(r)
  BY <1>5, <1>e, <1>t DEF YieldToHolder, Rest, Acting, Leading
<1>6. CASE SendClaim(r) \/ SendRelease(r) \/ ServeGet(r) \/ RejectWrite(r)
  <2>1. /\ role' = role /\ timer' = timer /\ renewed' = renewed /\ lease' = lease
        /\ orphans' = orphans /\ step[r] # "Accepted" /\ step'[r] # "Accepted"
    BY <1>6, <1>t DEF SendClaim, SendRelease, ServeGet, RejectWrite
  <2>2. Acting(r) /\ ClaimAge(r)' = ClaimAge(r)
    BY <2>1 DEF Acting, Leading, ClaimAge
  <2> QED BY <1>1, <1>a, <2>1, <2>2 DEF ClaimAge
<1>7. CASE Held(r)
  <2>1. Acting(r)
    BY <1>7 DEF Held, Acting, Electing
  <2>2. ClaimAge(r)' = ClaimAge(r)
    BY <1>7, <1>t DEF Held, Rest, ClaimAge
  <2> QED BY <1>1, <1>7, <1>a, <2>1, <2>2 DEF Held, ClaimAge
<1>8. CASE Conflict(r)
  <2>1. role[r] # "Releasing" /\ Rest(r) /\ UNCHANGED <<lease, orphans, role, renewed>>
    BY <1>8, <1>e DEF Conflict
  <2>2. Acting(r) /\ ClaimAge(r)' = ClaimAge(r)
    BY <1>8, <2>1, <1>t DEF Conflict, Rest, Acting, Leading, ClaimAge
  <2> QED BY <1>1, <1>a, <2>1, <2>2 DEF ClaimAge
<1>9. CASE Timeout(r)
  BY <1>9, <1>e, <1>t DEF Timeout, Rest, Acting, Leading
<1>10. CASE Fail(r)
  <2>1. role[r] # "Releasing" /\ Rest(r) /\ Abandon(r) /\ UNCHANGED <<lease, role, renewed>>
    BY <1>10, <1>e DEF Fail
  <2>2. Leading(r) /\ Acting(r)
    BY <2>1, <1>t DEF Rest, Acting, Leading
  <2>3. orphans' \subseteq orphans \cup {r}
    BY <2>1 DEF Abandon, Proposal
  <2>4. timer[r] <= renewed[r]
    BY <1>10, <2>2 DEF Fail, BaseInv, TimersOK
  <2>5. ClaimAge(r)' = renewed[r]
    BY <2>1, <1>t DEF Rest, ClaimAge
  <2> QED BY <1>1, <1>a, <2>1, <2>2, <2>3, <2>4, <2>5 DEF ClaimAge
<1>11. CASE Shutdown(r)
  <2>1. CASE Exit(r, "Stopped")
    BY <1>e, <2>1
  <2>2. CASE role[r] = "Leader" /\ role' = [role EXCEPT ![r] = "Draining"]
             /\ UNCHANGED <<lease, orphans, step, timer, renewed, observed, copy>>
    BY <1>1, <1>a, <2>2 DEF Acting, Leading, ClaimAge
  <2> QED BY <1>11, <2>1, <2>2 DEF Shutdown
<1> QED
  BY <1>2, <1>3, <1>4, <1>5, <1>6, <1>7, <1>8, <1>9, <1>10, <1>11
     DEF ReplicaStep, ServerStep, FaultStep

\* A step of another replica q while r acts.
LEMMA OtherStep ==
  ASSUME SafeTiming, BaseInv, BaseInv', ClaimsSafe, NEW r \in Replicas, Acting(r),
         NEW q \in Replicas, q # r, ReplicaStep(q) \/ ServerStep(q) \/ FaultStep(q)
  PROVE  ClaimSafe(r)'
<1>t. /\ role \in [Replicas -> Roles] /\ step \in [Replicas -> Steps]
      /\ observed \in [Replicas -> Observations]
      /\ copy \in [Replicas -> Leases] /\ timer \in [Replicas -> Nat]
  BY DEF BaseInv, TypeOK, Observations
<1>f. \A s \in Replicas : s # q => Same(s)
  BY Frame
<1>c. ClaimSafe(r) /\ lease.rv # NoVersion /\ lease.holder = r
  BY ActingFacts DEF ClaimsSafe, ClaimSafe
<1>w. step[q] = "Write" => copy[q].rv # lease.rv
  BY <1>c DEF ClaimSafe
<1>1. ASSUME lease' = lease, orphans' \subseteq orphans,
             step'[q] = "Write" => copy'[q].rv # lease.rv,
             observed'[q].rv = lease.rv =>
               \/ observed'[q] = observed[q]
               \/ observed'[q].age = timer[q] /\ copy[q].rv = lease.rv
                    /\ Electing(q) /\ step[q] = "Got",
             step'[q] = "Got" /\ Electing(q)' => timer'[q] <= ReadDelay
      PROVE  ClaimSafe(r)'
  BY <1>1, <1>f, OthersClaim
<1>a. ASSUME Abandon(q) PROVE orphans' = orphans
  BY <1>a, <1>w DEF Abandon
<1>e. ASSUME NEW how \in {"Down", "Stopped"}, Exit(q, how) PROVE ClaimSafe(r)'
  <2>1. step'[q] = "Idle" /\ observed'[q] = NothingObserved /\ lease' = lease /\ Abandon(q)
    BY <1>e, <1>t DEF Exit
  <2> QED BY <1>1, <1>a, <1>c, <2>1 DEF NothingObserved
<1>r. ASSUME Rest(q) \/ BeginAttempt(q), lease' = lease,
             Abandon(q) \/ orphans' = orphans, observed' = observed
      PROVE  ClaimSafe(r)'
  BY <1>r, <1>1, <1>a, <1>t DEF Rest, BeginAttempt
<1>s. Electing(q) /\ step[q] = "Got" =>
        observed[q] = Seen(q) \/ (Seen(q).rv = copy[q].rv /\ Seen(q).age = timer[q])
  BY DEF Seen, Observe
<1>2. CASE Start(q) \/ Wake(q) \/ Drained(q)
  BY <1>2, <1>r DEF Start, Wake, Drained
<1>3. CASE GiveUp(q) \/ SkipRelease(q) \/ Released(q) \/ Crash(q)
  BY <1>3, <1>e DEF GiveUp, SkipRelease, Released, Crash
<1>4. CASE YieldToHolder(q)
  <2>1. CASE Leading(q)
    BY <1>4, <1>e, <2>1 DEF YieldToHolder
  <2>2. CASE ~Leading(q)
    <3>1. /\ observed'[q] = Seen(q) /\ step'[q] = "Sleep" /\ lease' = lease
          /\ orphans' = orphans /\ Electing(q) /\ step[q] = "Got"
      BY <1>4, <2>2, <1>t DEF YieldToHolder, Rest
    <3> QED BY <1>1, <1>s, <3>1
  <2> QED BY <2>1, <2>2
<1>5. CASE SendClaim(q)
  <2>1. /\ observed'[q] = Seen(q) /\ step'[q] = "Write" /\ lease' = lease
        /\ orphans' = orphans /\ Electing(q) /\ step[q] = "Got" /\ copy' = copy
        /\ ~HeldByOther(q)
    BY <1>5, <1>t DEF SendClaim
  <2>2. copy[q].rv # lease.rv
    BY <2>1, OthersYield
  <2> QED BY <1>1, <1>s, <2>1, <2>2
<1>6. CASE SendRelease(q)
  <2>1. copy[q].rv # lease.rv
    BY <1>6, <1>c DEF SendRelease, BaseInv, VersionsOK
  <2> QED BY <1>1, <1>6, <2>1, <1>t DEF SendRelease
<1>7. CASE Held(q)
  <2>1. Acting(q)
    BY <1>7 DEF Held, Electing, Acting
  <2> QED BY <2>1, OneActs
<1>8. CASE Conflict(q)
  BY <1>8, <1>e, <1>r DEF Conflict
<1>9. CASE Timeout(q)
  <2>1. CASE role[q] = "Candidate"
    BY <1>9, <1>r, <2>1 DEF Timeout, Leading
  <2>2. CASE role[q] # "Candidate"
    BY <1>9, <1>e, <2>2 DEF Timeout
  <2> QED BY <2>1, <2>2
<1>10. CASE ServeGet(q)
  <2>1. /\ step'[q] = "Got" /\ observed' = observed /\ lease' = lease
        /\ orphans' = orphans /\ timer'[q] = timer[q] /\ role'[q] = role[q]
        /\ role[q] = "Releasing" \/ timer[q] <= ReadDelay
    BY <1>10, <1>t DEF ServeGet
  <2> QED BY <1>1, <2>1 DEF Electing, Leading
<1>11. CASE AcceptWrite(q)
  BY <1>11, <1>w DEF AcceptWrite
<1>12. CASE RejectWrite(q)
  BY <1>1, <1>12, <1>t DEF RejectWrite
<1>13. CASE Fail(q)
  BY <1>13, <1>e, <1>r DEF Fail
<1>14. CASE Shutdown(q)
  <2>1. CASE Exit(q, "Stopped")
    BY <1>e, <2>1
  <2>2. CASE role[q] = "Leader"
    BY <2>2, OneActs DEF Acting, Leading
  <2> QED BY <1>14, <2>1, <2>2 DEF Shutdown
<1> QED
  BY <1>2, <1>3, <1>4, <1>5, <1>6, <1>7, <1>8, <1>9, <1>10, <1>11, <1>12, <1>13, <1>14
     DEF ReplicaStep, ServerStep, FaultStep

LEMMA ElectionStep ==
  ASSUME SafeTiming PROVE ElectionInv /\ [Next]_vars => ElectionInv'
<1> SUFFICES ASSUME ElectionInv, [Next]_vars, BaseInv', NEW r \in Replicas, Acting(r)'
             PROVE  ClaimSafe(r)'
  BY BaseStep DEF ElectionInv, ClaimsSafe
<1> USE DEF ElectionInv
<1>0. CASE UNCHANGED vars
  BY <1>0 DEF vars, ClaimsSafe, ClaimSafe, Acting, Leading, ClaimAge, Electing
<1>1. CASE Tick
  BY <1>1, TickClaim DEF Tick, Acting, Leading
<1>2. CASE LandOrphan
  <2>1. Acting(r)
    BY <1>2 DEF LandOrphan, Acting, Leading
  <2>2. Store(r)
    BY <1>2, <2>1 DEF LandOrphan, ClaimsSafe, ClaimSafe
  <2> QED BY <1>2, <2>2, StoredClaim DEF LandOrphan
<1>3. ASSUME NEW q \in Replicas, ReplicaStep(q) \/ ServerStep(q) \/ FaultStep(q)
      PROVE  ClaimSafe(r)'
  <2>1. CASE q # r
    <3>1. Acting(r)
      BY <1>3, <2>1, Frame DEF Same, Acting, Leading
    <3> QED BY <1>3, <2>1, <3>1, OtherStep
  <2>2. CASE q = r /\ AcceptWrite(r)
    <3>1. role[r] # "Releasing"
      BY <2>2 DEF AcceptWrite, Acting, Leading
    <3>2. Store(r)
      BY <2>2, <3>1 DEF AcceptWrite, Proposal
    <3>3. \A s \in Replicas \ {r} : copy'[s] = copy[s]
      BY <1>3, <2>2, Frame DEF Same
    <3> QED BY <2>2, <3>2, <3>3, StoredClaim DEF AcceptWrite
  <2>3. CASE q = r /\ ~AcceptWrite(r)
    BY <1>3, <2>3, OwnStep
  <2> QED BY <2>1, <2>2, <2>3
<1> QED BY <1>0, <1>1, <1>2, <1>3 DEF Next

LEMMA ElectionInit == Init => ElectionInv
<1>1. Init => ClaimsSafe
  BY DEF Init, ClaimsSafe, Acting, Leading
<1> QED BY <1>1, BaseInit DEF ElectionInv

\* The inductive invariant of the election (leader.rs:190-310): a replica that
\* acts on the lease, or whose claim of it is on its way, is the one the server
\* names, and nobody else can find that lease expired before it has stopped.
THEOREM ElectionInvariant ==
  ASSUME SafeTiming PROVE Spec => []ElectionInv
BY ElectionInit, ElectionStep, PTL DEF Spec

\* At most one replica runs its controller (leader.rs:3-15), for any number of
\* replicas and any crashes, lost requests, late writes and shutdowns, if the
\* lease outlasts the renew deadline by more than a retry period and the
\* slowest GET.
THEOREM NoTwoLeaders ==
  ASSUME SafeTiming PROVE Spec => []MutualExclusion
<1>1. ElectionInv => MutualExclusion
  BY OneActs DEF ElectionInv, MutualExclusion, Acting
<1> QED BY <1>1, ElectionInvariant, PTL

\* While a replica leads, no candidate considers its lease expired
\* (leader.rs:13-15), under the same assumption.
THEOREM LeaderStopsFirst ==
  ASSUME SafeTiming PROVE Spec => []StoppedBeforeExpiry
<1>1. ASSUME ElectionInv, NEW r \in Replicas, NEW s \in Replicas,
             Leading(r), s # r, observed[s].rv = lease.rv
      PROVE  ~Expired(observed[s], 0)
  <2>1. Acting(r) /\ ClaimSafe(r)
    BY <1>1 DEF ElectionInv, ClaimsSafe, Acting
  <2>2. /\ lease.rv # NoVersion /\ lease.dur = LeaseDuration
        /\ ClaimAge(r) \in 0 .. RenewDeadline + RetryPeriod
    BY <1>1, <2>1, ActingFacts DEF ElectionInv
  <2>3. /\ observed[s].age <= ClaimAge(r) + ReadDelay
        /\ observed[s].dur = LeaseDuration /\ observed[s].age \in Nat
    BY <1>1, <2>1, <2>2, Constants
       DEF ElectionInv, BaseInv, TypeOK, VersionsOK, ClaimSafe
  <2> QED BY <1>1, <2>2, <2>3, Constants DEF Expired, SafeTiming
<1>2. ElectionInv => StoppedBeforeExpiry
  BY <1>1 DEF StoppedBeforeExpiry
<1> QED BY <1>2, ElectionInvariant, PTL

-----------------------------------------------------------------------------
\* The election implements the lock.

LeadingSet == {r \in Replicas : Leading(r)}

LEMMA OnlyOwnerStores ==
  ASSUME ElectionInv, NEW h \in Holders, Store(h),
         NEW q \in Replicas,
         \/ AcceptWrite(q) /\ h = Proposal(q)
         \/ h \in orphans,
         UNCHANGED role
  PROVE  Lock!LockNext
<1>1. lease'.holder = h
  BY StoreType
<1>2. LeadingSet' = LeadingSet
  BY DEF LeadingSet, Leading
<1>3. ASSUME NEW r \in Replicas, Leading(r) PROVE h = r
  <2>1. Acting(r) /\ ClaimSafe(r)
    BY <1>3 DEF ElectionInv, ClaimsSafe, Acting
  <2>2. CASE AcceptWrite(q) /\ h = Proposal(q)
    <3>1. q = r
      BY <2>1, <2>2 DEF AcceptWrite, ClaimSafe
    <3> QED BY <1>3, <2>2, <3>1 DEF Proposal, Leading
  <2>3. CASE h \in orphans
    BY <2>1, <2>3 DEF ClaimSafe
  <2> QED BY <2>2, <2>3
<1>4. CASE h = NoOne
  <2>1. LeadingSet = {}
    BY <1>3, <1>4, Constants DEF LeadingSet
  <2>2. Lock!Free
    BY <1>1, <1>2, <1>4, <2>1 DEF Lock!Free, LeadingSet
  <2> QED BY <2>2 DEF Lock!LockNext
<1>5. CASE h \in Replicas
  <2>1. LeadingSet \subseteq {h}
    BY <1>3 DEF LeadingSet
  <2>2. Lock!Grant(h)
    BY <1>1, <1>2, <2>1 DEF Lock!Grant, LeadingSet
  <2> QED BY <1>5, <2>2 DEF Lock!LockNext
<1> QED BY <1>4, <1>5 DEF Holders

LEMMA LeadingChanges ==
  ASSUME NEW r \in Replicas, lease' = lease,
         role \in [Replicas -> Roles],
         NEW to \in Roles, role' = [role EXCEPT ![r] = to],
         to \in {"Leader", "Draining"} => Leading(r) \/ lease.holder = r
  PROVE  [Lock!LockNext]_(Lock!lockVars)
<1>1. CASE to \in {"Leader", "Draining"} /\ Leading(r)
  <2>1. LeadingSet' = LeadingSet
    BY <1>1 DEF LeadingSet, Leading
  <2> QED BY <2>1 DEF Lock!lockVars, LeadingSet
<1>2. CASE to \in {"Leader", "Draining"} /\ lease.holder = r
  <2>1. LeadingSet' = LeadingSet \cup {r}
    BY <1>2 DEF LeadingSet, Leading
  <2>2. Lock!Lead(r)
    BY <1>2, <2>1 DEF Lock!Lead, LeadingSet
  <2> QED BY <2>2 DEF Lock!LockNext
<1>3. CASE to \notin {"Leader", "Draining"}
  <2>1. LeadingSet' = LeadingSet \ {r}
    BY <1>3 DEF LeadingSet, Leading
  <2>2. Lock!Stop(r)
    BY <2>1 DEF Lock!Stop, LeadingSet
  <2> QED BY <2>2 DEF Lock!LockNext
<1> QED BY <1>1, <1>2, <1>3

LEMMA LockStep ==
  ElectionInv /\ [Next]_vars => [Lock!LockNext]_(Lock!lockVars)
<1> SUFFICES ASSUME ElectionInv, [Next]_vars
             PROVE  [Lock!LockNext]_(Lock!lockVars)
  OBVIOUS
<1>t. role \in [Replicas -> Roles] /\ orphans \subseteq Holders
  BY DEF ElectionInv, BaseInv, TypeOK
<1>u. ASSUME UNCHANGED <<lease, role>> PROVE [Lock!LockNext]_(Lock!lockVars)
  BY <1>u DEF Lock!lockVars, Leading
<1>e. ASSUME NEW q \in Replicas, NEW how \in {"Down", "Stopped"}, Exit(q, how)
      PROVE  [Lock!LockNext]_(Lock!lockVars)
  BY <1>e, <1>t, LeadingChanges DEF Exit, Roles
<1>0. CASE UNCHANGED vars \/ Tick
  BY <1>0, <1>u DEF vars, Tick
<1>1. CASE LandOrphan
  <2>1. PICK h \in orphans : Store(h)
    BY <1>1 DEF LandOrphan
  <2>2. CASE Replicas = {}
    BY <1>1, <2>1, <2>2, <1>t, StoreType
       DEF LandOrphan, Lock!LockNext, Lock!Free, Holders, Leading
  <2>3. CASE Replicas # {}
    BY <1>1, <2>1, <2>3, <1>t, OnlyOwnerStores DEF LandOrphan
  <2> QED BY <2>2, <2>3
<1>2. ASSUME NEW q \in Replicas, ReplicaStep(q) PROVE [Lock!LockNext]_(Lock!lockVars)
  <2>1. CASE Start(q)
    BY <1>t, <2>1, LeadingChanges DEF Start, Roles
  <2>2. CASE Wake(q) \/ SendClaim(q) \/ SendRelease(q)
    BY <2>2, <1>u DEF Wake, SendClaim, SendRelease
  <2>3. CASE GiveUp(q) \/ SkipRelease(q) \/ Released(q)
    BY <2>3, <1>e DEF GiveUp, SkipRelease, Released
  <2>4. CASE YieldToHolder(q)
    BY <2>4, <1>e, <1>u DEF YieldToHolder
  <2>5. CASE Held(q)
    <3>1. lease.holder = q /\ lease' = lease
      BY <2>5 DEF Held, Electing, Acting, ElectionInv, ClaimsSafe, ClaimSafe
    <3>2. CASE role[q] = "Candidate"
      <4>1. role' = [role EXCEPT ![q] = "Leader"]
        BY <2>5, <3>2, <1>t DEF Held
      <4> QED BY <1>t, <3>1, <4>1, LeadingChanges DEF Roles
    <3>3. CASE role[q] # "Candidate"
      BY <2>5, <3>1, <3>3, <1>t, <1>u DEF Held
    <3> QED BY <3>2, <3>3
  <2>6. CASE Conflict(q)
    BY <2>6, <1>e, <1>u DEF Conflict
  <2>7. CASE Timeout(q)
    <3>1. CASE role[q] = "Candidate"
      BY <2>7, <3>1, <1>u DEF Timeout, Leading
    <3>2. CASE role[q] # "Candidate"
      BY <2>7, <3>2, <1>e DEF Timeout
    <3> QED BY <3>1, <3>2
  <2>8. CASE Drained(q)
    BY <2>8, <1>t, LeadingChanges DEF Drained, Roles
  <2> QED BY <1>2, <2>1, <2>2, <2>3, <2>4, <2>5, <2>6, <2>7, <2>8 DEF ReplicaStep
<1>3. ASSUME NEW q \in Replicas, ServerStep(q) PROVE [Lock!LockNext]_(Lock!lockVars)
  <2>1. CASE ServeGet(q) \/ RejectWrite(q)
    BY <2>1, <1>u DEF ServeGet, RejectWrite
  <2>2. CASE AcceptWrite(q)
    <3>1. Proposal(q) \in Holders
      BY DEF Proposal, Holders
    <3> QED BY <2>2, <3>1, OnlyOwnerStores DEF AcceptWrite
  <2> QED BY <1>3, <2>1, <2>2 DEF ServerStep
<1>4. ASSUME NEW q \in Replicas, FaultStep(q) PROVE [Lock!LockNext]_(Lock!lockVars)
  <2>1. CASE Fail(q)
    BY <2>1, <1>e, <1>u DEF Fail
  <2>2. CASE Crash(q)
    BY <2>2, <1>e DEF Crash
  <2>3. CASE Shutdown(q)
    <3>1. CASE Exit(q, "Stopped")
      BY <1>e, <3>1
    <3>2. CASE role[q] = "Leader" /\ role' = [role EXCEPT ![q] = "Draining"]
               /\ UNCHANGED <<lease, orphans, step, timer, renewed, observed, copy>>
      BY <3>2, <1>t, LeadingChanges DEF Leading, Roles
    <3> QED BY <2>3, <3>1, <3>2 DEF Shutdown
  <2> QED BY <1>4, <2>1, <2>2, <2>3 DEF FaultStep
<1> QED BY <1>0, <1>1, <1>2, <1>3, <1>4 DEF Next

\* Under SafeTiming the election implements the lock of LeaseLock: the Lease
\* names whoever leads, and passes to another replica only when nobody leads.
THEOREM ElectionImplementsLock ==
  ASSUME SafeTiming PROVE Spec => ImplementsLock
<1>1. Init => Lock!LockInit
  BY DEF Init, Lock!LockInit, NoLease, Leading
<1> QED
  BY <1>1, LockStep, ElectionInvariant, PTL DEF Spec, ImplementsLock, Lock!LockSpec
=============================================================================
