------------------------------ MODULE LeaseLock ------------------------------
(***************************************************************************)
(* What leader election promises (crates/koprs/src/leader.rs:3-20): a lock *)
(* that names its holder.  The name changes hands, or is given up, only    *)
(* while nobody else acts under it, and only the named one starts to act.  *)
(* Nothing here knows of time, versions, requests or failures.             *)
(***************************************************************************)
CONSTANTS Replicas, NoOne

VARIABLES
  holder,    \* the name on the lock
  leading    \* the replicas that act as the leader

lockVars == <<holder, leading>>

LockInit == holder = NoOne /\ leading = {}

\* r puts its name on the lock while no other replica leads.
Grant(r) ==
  /\ leading \subseteq {r}
  /\ holder' = r
  /\ UNCHANGED leading

\* The name is taken off while nobody leads.
Free ==
  /\ leading = {}
  /\ holder' = NoOne
  /\ UNCHANGED leading

\* The holder starts to lead.
Lead(r) ==
  /\ holder = r
  /\ leading' = leading \cup {r}
  /\ UNCHANGED holder

\* r stops to lead: it lost the lease, was shut down or crashed.
Stop(r) ==
  /\ leading' = leading \ {r}
  /\ UNCHANGED holder

LockNext ==
  \/ \E r \in Replicas : Grant(r) \/ Lead(r) \/ Stop(r)
  \/ Free

LockSpec == LockInit /\ [][LockNext]_lockVars

\* The promise in one formula: whoever leads is the holder.
LeaderIsHolder == \A r \in leading : holder = r
=============================================================================
