--------------------------- MODULE LeaderElection ---------------------------
(***************************************************************************)
(* Lease-based leader election (crates/koprs/src/leader.rs) as             *)
(* Controller::run drives it (crates/koprs/src/controller.rs).             *)
(*                                                                         *)
(* Every replica owns an elector that reads and writes one Lease object on *)
(* the API server.  A request takes three steps: it is sent, the server    *)
(* handles it, the reply is delivered; a reply may be lost, a caller may   *)
(* stop waiting, and a write nobody waits for any more may still land.     *)
(*                                                                         *)
(* Time is discrete.  The code compares only `now - instant' with a        *)
(* duration, so an instant is modelled by the time elapsed since it.  Tick *)
(* lets one unit pass and is disabled while a timer is due: the runtime    *)
(* fires its timers promptly, and what happens at one instant interleaves  *)
(* in any order.  No clock is bounded; ages stop counting at AgeCap.       *)
(***************************************************************************)
EXTENDS Integers, FiniteSets

CONSTANTS
  Replicas,        \* the identities (pod names) that compete for the lease
  Versions,        \* resourceVersions the API server can hand out
  NoVersion,       \* `no resourceVersion': there is no lease, nothing observed
  NoOne,           \* the empty holderIdentity
  LeaseDuration,   \* LeaderElectionConfig.lease_duration
  RenewDeadline,   \* LeaderElectionConfig.renew_deadline
  RetryPeriod,     \* LeaderElectionConfig.retry_period
  ReadDelay,       \* the API server reads the lease within this time of the
                   \* start of the attempt, or the attempt does not read it
  ReleaseTimeout   \* LEASE_RELEASE_TIMEOUT

\* LeaderElectionConfig::validate, for durations that are whole time units.
Validate(lease, renew, retry) ==
  /\ retry > 0
  /\ lease >= 1
  /\ renew < lease
  /\ retry < renew

ASSUME ConfigAssumption ==
  /\ {LeaseDuration, RenewDeadline, RetryPeriod, ReadDelay, ReleaseTimeout}
        \subseteq Nat
  /\ Validate(LeaseDuration, RenewDeadline, RetryPeriod)
  /\ ReadDelay <= RenewDeadline
  /\ ReleaseTimeout > 0

ASSUME NamesAssumption ==
  /\ NoOne \notin Replicas
  /\ NoVersion \notin Versions

(***************************************************************************)
(* What the timings must satisfy for two leaders to be impossible.  It is  *)
(* stronger than Validate: a leader runs up to RetryPeriod past its        *)
(* deadline, and a candidate counts the lease from before its own GET.     *)
(***************************************************************************)
SafeTiming == ReadDelay + RenewDeadline + RetryPeriod < LeaseDuration

ReleasedDuration == 1   \* leaseDurationSeconds of a released lease
AgeCap == LeaseDuration + RenewDeadline

Holders == Replicas \cup {NoOne}
Leases  == [rv : Versions \cup {NoVersion}, holder : Holders, dur : Nat]
NoLease == [rv |-> NoVersion, holder |-> NoOne, dur |-> LeaseDuration]

\* build_lease: what a replica writes to claim, renew or (NoOne) release.
LeaseOf(h, v) ==
  [rv |-> v, holder |-> h,
   dur |-> IF h = NoOne THEN ReleasedDuration ELSE LeaseDuration]

NothingObserved == [rv |-> NoVersion, age |-> 0, dur |-> LeaseDuration]

VARIABLES
  lease,     \* the Lease object on the API server
  orphans,   \* writes on the current lease nobody waits for, by new holder;
             \* one on an older resourceVersion can only be refused
  role,      \* where the replica's Controller::run is
  step,      \* where the replica's current attempt is
  timer,     \* time since the current sleep or attempt began
  renewed,   \* time since last_renew of renew_until_lost
  observed,  \* LeaderElector.observed; age is the time since observed_at
  copy       \* the Lease in the last reply of the current attempt

vars == <<lease, orphans, role, step, timer, renewed, observed, copy>>

Roles == {"Down",        \* not running: not started, crashed, or `lost'
          "Candidate",   \* in acquire
          "Leader",      \* select! of run_loop and renew_until_lost
          "Draining",    \* the same after the shutdown signal
          "Releasing",   \* in release, the controller has stopped
          "Stopped"}     \* run returned Ok
Steps == {"Idle",        \* no elector
          "Sleep",       \* in tokio::time::sleep(retry_period)
          "Get",         \* GET on its way to the server
          "Got",         \* its reply on the way back
          "Write",       \* POST or PUT on its way to the server
          "Accepted",    \* success reply on the way back
          "Rejected"}    \* 409 on the way back

TypeOK ==
  /\ lease \in Leases
  /\ orphans \subseteq Holders
  /\ role \in [Replicas -> Roles]
  /\ step \in [Replicas -> Steps]
  /\ timer \in [Replicas -> Nat]
  /\ renewed \in [Replicas -> 0 .. RenewDeadline + RetryPeriod]
  /\ observed \in [Replicas -> [rv : Versions \cup {NoVersion},
                                age : 0 .. AgeCap, dur : Nat]]
  /\ copy \in [Replicas -> Leases]

-----------------------------------------------------------------------------
Running(r)  == role[r] \notin {"Down", "Stopped"}
Leading(r)  == role[r] \in {"Leader", "Draining"}    \* its controller runs
Electing(r) == role[r] = "Candidate" \/ Leading(r)   \* in try_acquire_or_renew
Attempting(r) == step[r] \notin {"Idle", "Sleep"}

UsedVersions ==
  {lease.rv} \cup {observed[r].rv : r \in Replicas}
             \cup {copy[r].rv : r \in Replicas}
FreshVersions == Versions \ UsedVersions

\* The holder the write of replica r puts in the lease.
Proposal(r) == IF role[r] = "Releasing" THEN NoOne ELSE r

\* Seeded faults, in the form `<definition><Fault>', stand before the definition
\* they replace; each must make one property below fail.

\* The time since the first version seen is kept when the version changes.
ObserveKeepsTime(o, l, elapsed) ==
  IF o.rv = NoVersion THEN [rv |-> l.rv, age |-> elapsed, dur |-> l.dur]
  ELSE [o EXCEPT !.rv = l.rv, !.dur = l.dur]

\* Every read restarts the time, changed or not.
ObserveAlwaysRestarts(o, l, elapsed) ==
  [rv |-> l.rv, age |-> elapsed, dur |-> l.dur]

\* LeaderElector::observe: the time restarts only when the version changed.
Observe(o, l, elapsed) ==
  IF l.rv = o.rv THEN o ELSE [rv |-> l.rv, age |-> elapsed, dur |-> l.dur]

\* observed_expired(started) of an attempt that began `elapsed' ago.
Expired(o, elapsed) == o.rv = NoVersion \/ o.age >= o.dur + elapsed

Init ==
  /\ lease = NoLease
  /\ orphans = {}
  /\ role = [r \in Replicas |-> "Down"]
  /\ step = [r \in Replicas |-> "Idle"]
  /\ timer = [r \in Replicas |-> 0]
  /\ renewed = [r \in Replicas |-> 0]
  /\ observed = [r \in Replicas |-> NothingObserved]
  /\ copy = [r \in Replicas |-> NoLease]

-----------------------------------------------------------------------------
\* A request in flight is dropped: a write may still reach the server.
Abandon(r) ==
  orphans' = IF step[r] = "Write" /\ copy[r].rv = lease.rv
             THEN orphans \cup {Proposal(r)}
             ELSE orphans

\* The process or its election ends as `how'; nothing of it is kept.
Exit(r, how) ==
  /\ role' = [role EXCEPT ![r] = how]
  /\ step' = [step EXCEPT ![r] = "Idle"]
  /\ timer' = [timer EXCEPT ![r] = 0]
  /\ renewed' = [renewed EXCEPT ![r] = 0]
  /\ observed' = [observed EXCEPT ![r] = NothingObserved]
  /\ copy' = [copy EXCEPT ![r] = NoLease]
  /\ Abandon(r)
  /\ UNCHANGED lease

\* An attempt begins: `started' is taken and the GET is sent.
BeginAttempt(r) ==
  /\ step' = [step EXCEPT ![r] = "Get"]
  /\ timer' = [timer EXCEPT ![r] = 0]
  /\ copy' = [copy EXCEPT ![r] = NoLease]

\* An attempt ends and the loop goes to sleep for retry_period.
Rest(r) ==
  /\ step' = [step EXCEPT ![r] = "Sleep"]
  /\ timer' = [timer EXCEPT ![r] = 0]
  /\ copy' = [copy EXCEPT ![r] = NoLease]

-----------------------------------------------------------------------------
\* The process starts (again) and run enters acquire.
Start(r) ==
  /\ ~Running(r)
  /\ role' = [role EXCEPT ![r] = "Candidate"]
  /\ BeginAttempt(r)
  /\ UNCHANGED <<lease, orphans, renewed, observed>>

\* A leader wakes up and tries again whatever its deadline.
WakePastDeadline(r) ==
  /\ step[r] = "Sleep" /\ timer[r] >= RetryPeriod
  /\ BeginAttempt(r)
  /\ UNCHANGED <<lease, orphans, role, renewed, observed>>

\* The retry sleep ends and, for a leader, before its deadline.
Wake(r) ==
  /\ step[r] = "Sleep" /\ timer[r] >= RetryPeriod
  /\ Leading(r) => renewed[r] < RenewDeadline
  /\ BeginAttempt(r)
  /\ UNCHANGED <<lease, orphans, role, renewed, observed>>

\* The retry sleep of a leader ends on or after its deadline: `lost'.
GiveUp(r) ==
  /\ step[r] = "Sleep" /\ timer[r] >= RetryPeriod
  /\ Leading(r) /\ renewed[r] >= RenewDeadline
  /\ Exit(r, "Down")

\* The API server serves a GET.
ServeGet(r) ==
  /\ step[r] = "Get"
  /\ role[r] = "Releasing" \/ timer[r] <= ReadDelay
  /\ step' = [step EXCEPT ![r] = "Got"]
  /\ copy' = [copy EXCEPT ![r] = lease]
  /\ UNCHANGED <<lease, orphans, role, timer, renewed, observed>>

\* What the elector has observed once it has handled the reply to its GET;
\* an absent lease is not observed.
Seen(r) ==
  IF copy[r].rv = NoVersion THEN observed[r]
  ELSE Observe(observed[r], copy[r], timer[r])

\* Expiry is judged before the lease just read is observed.
HeldByOtherTooEarly(r) ==
  /\ copy[r].holder \notin {r, NoOne}
  /\ ~Expired(observed[r], timer[r])

HeldByOther(r) ==
  /\ copy[r].holder \notin {r, NoOne}
  /\ ~Expired(Seen(r), timer[r])

\* The reply shows a live lease of another replica: a candidate goes back to
\* sleep, a leader is `lost'.
YieldToHolder(r) ==
  /\ step[r] = "Got" /\ Electing(r) /\ HeldByOther(r)
  /\ IF Leading(r)
     THEN Exit(r, "Down")
     ELSE /\ observed' = [observed EXCEPT ![r] = Seen(r)]
          /\ Rest(r)
          /\ UNCHANGED <<lease, orphans, role, renewed>>

\* The reply lets the elector create, take over or renew the lease.
SendClaim(r) ==
  /\ step[r] = "Got" /\ Electing(r) /\ ~HeldByOther(r)
  /\ observed' = [observed EXCEPT ![r] = Seen(r)]
  /\ step' = [step EXCEPT ![r] = "Write"]
  /\ UNCHANGED <<lease, orphans, role, timer, renewed, copy>>

\* release writes whoever holds the lease.
SendReleaseAnyway(r) ==
  /\ step[r] = "Got" /\ role[r] = "Releasing"
  /\ step' = [step EXCEPT ![r] = "Write"]
  /\ UNCHANGED <<lease, orphans, role, timer, renewed, observed, copy>>

\* release: only a lease that still names this replica is written.
SendRelease(r) ==
  /\ step[r] = "Got" /\ role[r] = "Releasing" /\ copy[r].holder = r
  /\ step' = [step EXCEPT ![r] = "Write"]
  /\ UNCHANGED <<lease, orphans, role, timer, renewed, observed, copy>>

SkipRelease(r) ==
  /\ step[r] = "Got" /\ role[r] = "Releasing" /\ copy[r].holder # r
  /\ Exit(r, "Stopped")

\* The API server stores h as the holder under a version never used before.
Store(h) ==
  /\ FreshVersions # {}
  /\ lease' = LeaseOf(h, CHOOSE v \in FreshVersions : TRUE)
  /\ orphans' = {}

\* POST succeeds when there is no lease, PUT when the version is current.
AcceptWrite(r) ==
  /\ step[r] = "Write" /\ copy[r].rv = lease.rv
  /\ Store(Proposal(r))
  /\ step' = [step EXCEPT ![r] = "Accepted"]
  /\ copy' = [copy EXCEPT ![r] = lease']
  /\ UNCHANGED <<role, timer, renewed, observed>>

RejectWrite(r) ==
  /\ step[r] = "Write" /\ copy[r].rv # lease.rv
  /\ step' = [step EXCEPT ![r] = "Rejected"]
  /\ UNCHANGED <<lease, orphans, role, timer, renewed, observed, copy>>

\* A write nobody waits for lands.
LandOrphan ==
  /\ \E h \in orphans : Store(h)
  /\ UNCHANGED <<role, step, timer, renewed, observed, copy>>

\* last_renew is the time of the reply, not of the start of the attempt.
HeldFromReply(r) ==
  /\ step[r] = "Accepted" /\ Electing(r)
  /\ observed' = [observed EXCEPT ![r] = Observe(observed[r], copy[r], timer[r])]
  /\ renewed' = [renewed EXCEPT ![r] = 0]
  /\ role' = [role EXCEPT ![r] = IF role[r] = "Candidate" THEN "Leader" ELSE @]
  /\ Rest(r)
  /\ UNCHANGED <<lease, orphans>>

\* Attempt::Held reaches acquire (which returns) or renew_until_lost.
Held(r) ==
  /\ step[r] = "Accepted" /\ Electing(r)
  /\ observed' = [observed EXCEPT ![r] = Observe(observed[r], copy[r], timer[r])]
  /\ renewed' = [renewed EXCEPT ![r] = timer[r]]
  /\ role' = [role EXCEPT ![r] = IF role[r] = "Candidate" THEN "Leader" ELSE @]
  /\ Rest(r)
  /\ UNCHANGED <<lease, orphans>>

Released(r) ==
  /\ step[r] = "Accepted" /\ role[r] = "Releasing"
  /\ Exit(r, "Stopped")

\* A 409 is taken for a renewal.
ConflictHeld(r) ==
  /\ step[r] = "Rejected"
  /\ IF role[r] = "Releasing"
     THEN Exit(r, "Stopped")
     ELSE /\ Rest(r)
          /\ renewed' = [renewed EXCEPT ![r] = timer[r]]
          /\ role' = [role EXCEPT ![r] = IF role[r] = "Candidate" THEN "Leader" ELSE @]
          /\ UNCHANGED <<lease, orphans, observed>>

\* Attempt::Conflict, or the 409 that release only logs.
Conflict(r) ==
  /\ step[r] = "Rejected"
  /\ IF role[r] = "Releasing"
     THEN Exit(r, "Stopped")
     ELSE Rest(r) /\ UNCHANGED <<lease, orphans, role, renewed, observed>>

\* The request fails: refused, or its connection or its reply is lost.
Fail(r) ==
  /\ Attempting(r)
  /\ IF role[r] = "Releasing"
     THEN Exit(r, "Stopped")
     ELSE /\ Rest(r)
          /\ Abandon(r)
          /\ UNCHANGED <<lease, role, renewed, observed>>

\* How long the caller waits: tokio::time::timeout(renew_deadline, ..) in
\* acquire, timeout_at(last_renew + renew_deadline, ..) in renew_until_lost,
\* timeout(LEASE_RELEASE_TIMEOUT, ..) around release.
TimeoutDue(r) ==
  /\ Attempting(r)
  /\ \/ role[r] = "Candidate" /\ timer[r] >= RenewDeadline
     \/ Leading(r) /\ renewed[r] >= RenewDeadline
     \/ role[r] = "Releasing" /\ timer[r] >= ReleaseTimeout

Timeout(r) ==
  /\ TimeoutDue(r)
  /\ CASE role[r] = "Candidate" ->
            /\ Rest(r)
            /\ Abandon(r)
            /\ UNCHANGED <<lease, role, renewed, observed>>
       [] Leading(r)            -> Exit(r, "Down")
       [] OTHER                 -> Exit(r, "Stopped")

\* The shutdown signal: a candidate returns straight away, a leader drains.
Shutdown(r) ==
  \/ role[r] = "Candidate" /\ Exit(r, "Stopped")
  \/ /\ role[r] = "Leader"
     /\ role' = [role EXCEPT ![r] = "Draining"]
     /\ UNCHANGED <<lease, orphans, step, timer, renewed, observed, copy>>

\* The last reconcile ends: select! drops the renewal, release sends its GET.
Drained(r) ==
  /\ role[r] = "Draining"
  /\ role' = [role EXCEPT ![r] = "Releasing"]
  /\ BeginAttempt(r)
  /\ renewed' = [renewed EXCEPT ![r] = 0]
  /\ Abandon(r)
  /\ UNCHANGED <<lease, observed>>

Crash(r) == Running(r) /\ Exit(r, "Down")

\* One unit of time passes; no timer is due.
TimerDue(r) == TimeoutDue(r) \/ (step[r] = "Sleep" /\ timer[r] >= RetryPeriod)

Tick ==
  /\ \A r \in Replicas : ~TimerDue(r)
  /\ timer' = [r \in Replicas |-> timer[r] + (IF Running(r) THEN 1 ELSE 0)]
  /\ renewed' = [r \in Replicas |-> renewed[r] + (IF Leading(r) THEN 1 ELSE 0)]
  /\ observed' =
       [r \in Replicas |->
          [observed[r] EXCEPT
             !.age = IF observed[r].rv = NoVersion \/ @ = AgeCap
                     THEN @ ELSE @ + 1]]
  /\ UNCHANGED <<lease, orphans, role, step, copy>>

ReplicaStep(r) ==
  \/ Start(r) \/ Wake(r) \/ GiveUp(r)
  \/ YieldToHolder(r) \/ SendClaim(r) \/ SendRelease(r) \/ SkipRelease(r)
  \/ Held(r) \/ Released(r) \/ Conflict(r) \/ Timeout(r) \/ Drained(r)

ServerStep(r) == ServeGet(r) \/ AcceptWrite(r) \/ RejectWrite(r)

FaultStep(r) == Fail(r) \/ Crash(r) \/ Shutdown(r)

Next ==
  \/ \E r \in Replicas : ReplicaStep(r) \/ ServerStep(r) \/ FaultStep(r)
  \/ LandOrphan
  \/ Tick

Spec == Init /\ [][Next]_vars

-----------------------------------------------------------------------------
(***************************************************************************)
(* Properties.                                                             *)
(***************************************************************************)

\* At most one replica runs its controller, whatever crashes, is slow or is
\* lost (leader.rs:3-5, `so only one active instance at a time').
MutualExclusion ==
  \A r, s \in Replicas : Leading(r) /\ Leading(s) => r = s

\* `The old leader has stopped before any candidate considers the lease
\* expired' (leader.rs:13-15): while r leads, the attempt another replica
\* begins now does not find the current lease expired.
StoppedBeforeExpiry ==
  \A r, s \in Replicas :
    /\ Leading(r) /\ Electing(s) /\ s # r
    /\ observed[s].rv = lease.rv
    => ~Expired(observed[s], 0)

\* release (leader.rs:343-345): `a lease that changed hands in the meantime is
\* never overwritten'.  When the write of a releasing replica is stored, the
\* lease it replaces names that replica.
ReleaseReplacesOwnLease ==
  [][\A r \in Replicas :
       role[r] = "Releasing" /\ step[r] = "Write" /\ step'[r] = "Accepted"
         => lease.holder = r]_vars

\* The election implements the lock of LeaseLock: the name on the Lease changes
\* hands, or is given up, only while no other replica runs its controller.
Lock == INSTANCE LeaseLock WITH
          holder <- lease.holder,
          leading <- {r \in Replicas : Leading(r)}
ImplementsLock == Lock!LockSpec

\* `The lease is released on graceful shutdown so a standby takes over
\* immediately' (leader.rs:18-20): a replica that was shut down does not leave
\* a lease behind that names it.
ShutdownFreesLease ==
  \A r \in Replicas : role[r] = "Stopped" => lease.holder # r

\* The release of a leader that was shut down is refused only when the lease
\* has changed hands (leader.rs:341-345): after a 409 another replica, or
\* nobody, holds it.
ReleaseRefusedOnlyIfLost ==
  [][\A r \in Replicas :
       role[r] = "Releasing" /\ step[r] = "Rejected" /\ step'[r] = "Idle"
         => lease.holder # r]_vars

-----------------------------------------------------------------------------
(***************************************************************************)
(* The inductive invariant.                                                *)
(***************************************************************************)

\* What a replica's role and the step of its elector say of each other.
PhasesOK ==
  \A r \in Replicas :
    /\ step[r] = "Idle" <=> ~Running(r)
    /\ role[r] = "Releasing" => Attempting(r)

\* No timer runs past what it waits for; a leader's attempt began after its
\* last renewal and ends by its deadline, a sleep may end RetryPeriod later.
TimersOK ==
  \A r \in Replicas :
    /\ step[r] = "Sleep" => timer[r] <= RetryPeriod
    /\ role[r] = "Candidate" /\ Attempting(r) => timer[r] <= RenewDeadline
    /\ Leading(r) /\ Attempting(r) =>
         timer[r] <= renewed[r] /\ renewed[r] <= RenewDeadline
    /\ Leading(r) /\ step[r] = "Sleep" =>
         renewed[r] <= RenewDeadline + timer[r]

\* A version stands for one state of the lease.
VersionsOK ==
  /\ lease.rv = NoVersion => lease = NoLease
  /\ lease.holder # NoOne => lease.dur = LeaseDuration
  /\ \A r \in Replicas :
       /\ copy[r].rv = lease.rv => copy[r] = lease
       /\ observed[r].rv = lease.rv => observed[r].dur = lease.dur
       /\ role[r] = "Releasing" /\ step[r] = "Write" => copy[r].holder = r

\* r leads, or will when the reply to its accepted claim arrives.
Acting(r) == Leading(r) \/ (role[r] = "Candidate" /\ step[r] = "Accepted")

\* The time since the attempt began that wrote the lease of an acting replica,
\* or longer.
ClaimAge(r) == IF step[r] = "Accepted" THEN timer[r] ELSE renewed[r]

\* While r acts the lease names it, no other write can succeed, and whoever has
\* seen the current version counts at most ReadDelay more than r itself.
ClaimSafe(r) ==
  /\ lease.holder = r
  /\ orphans \subseteq {r}
  /\ \A s \in Replicas \ {r} :
       /\ step[s] = "Write" => copy[s].rv # lease.rv
       /\ observed[s].rv = lease.rv => observed[s].age <= ClaimAge(r) + ReadDelay
       /\ Electing(s) /\ step[s] = "Got" /\ copy[s].rv = lease.rv =>
            timer[s] <= ClaimAge(r) + ReadDelay

ClaimsSafe == \A r \in Replicas : Acting(r) => ClaimSafe(r)

\* Holds whatever the timings; ClaimsSafe needs SafeTiming.
BaseInv == TypeOK /\ PhasesOK /\ TimersOK /\ VersionsOK

ElectionInv == BaseInv /\ ClaimsSafe
=============================================================================
