------------------------- MODULE LeaderElectionLive -------------------------
(***************************************************************************)
(* The election under a finite number of disturbances.                     *)
(*                                                                         *)
(* A disturbance is a failed request, a crash, a shutdown signal, or a     *)
(* unit of time that passes while a request is under way.  When there are  *)
(* no more of them the API server answers at once, a crashed process is    *)
(* restarted and time goes on; a write that was abandoned may still land   *)
(* at any time, or never.                                                  *)
(***************************************************************************)
EXTENDS LeaderElection

CONSTANT MaxDisturbances

ASSUME DisturbancesAssumption == MaxDisturbances \in Nat

VARIABLE disturbances

liveVars == <<lease, orphans, role, step, timer, renewed, observed, copy,
              disturbances>>

\* Nothing is under way but GETs the server did not read in time.
Quiet ==
  \A r \in Replicas :
    Attempting(r) => step[r] = "Get" /\ ~ENABLED ServeGet(r)

CalmTick  == Tick /\ Quiet /\ UNCHANGED disturbances
CalmReplicaStep(r) == ReplicaStep(r) /\ UNCHANGED disturbances
CalmServerStep(r)  == ServerStep(r) /\ UNCHANGED disturbances
LateWrite == LandOrphan /\ UNCHANGED disturbances

Disturb ==
  /\ disturbances < MaxDisturbances
  /\ disturbances' = disturbances + 1
  /\ \/ \E r \in Replicas : FaultStep(r)
     \/ ~Quiet /\ Tick

LiveInit == Init /\ disturbances = 0

LiveNext ==
  \/ \E r \in Replicas : CalmReplicaStep(r) \/ CalmServerStep(r)
  \/ CalmTick
  \/ LateWrite
  \/ Disturb

\* Processes and the API server do not stop for ever; a replica that was shut
\* down need not come back.
LiveFairness ==
  /\ WF_liveVars(CalmTick)
  /\ \A r \in Replicas :
       /\ WF_liveVars(role[r] # "Stopped" /\ CalmReplicaStep(r))
       /\ WF_liveVars(CalmServerStep(r))

LiveSpec == LiveInit /\ [][LiveNext]_liveVars /\ LiveFairness

\* When the disturbances end, one replica leads and keeps leading, whoever held
\* the lease when it crashed, lost it or was shut down, unless all replicas are
\* shut down (leader.rs:262-339: acquire and renew_until_lost always retry).
StableLeadership ==
  \/ \E r \in Replicas : <>[]Leading(r)
  \/ <>[](\A r \in Replicas : role[r] = "Stopped")
=============================================================================
