-------------------------- MODULE MCLeaderElection --------------------------
(***************************************************************************)
(* TLC instances of LeaderElection: the safety runs.                       *)
(*                                                                         *)
(* resourceVersions are opaque: the specification only compares them.  The *)
(* view therefore keeps which of them are equal (and which are absent) and *)
(* forgets their names, so that states which differ by a renaming of       *)
(* versions are explored once.                                             *)
(***************************************************************************)
EXTENDS LeaderElection

Slots == {<<"lease", NoOne>>}
           \cup {<<"observed", r>> : r \in Replicas}
           \cup {<<"copy", r>> : r \in Replicas}

VersionAt(slot) ==
  CASE slot[1] = "lease"    -> lease.rv
    [] slot[1] = "observed" -> observed[slot[2]].rv
    [] slot[1] = "copy"     -> copy[slot[2]].rv

View ==
  <<{p \in Slots \X Slots : VersionAt(p[1]) = VersionAt(p[2])},
    {p \in Slots : VersionAt(p) = NoVersion},
    lease.holder, lease.dur, orphans, role, step, timer, renewed,
    [r \in Replicas |-> <<observed[r].age, observed[r].dur>>],
    [r \in Replicas |-> <<copy[r].holder, copy[r].dur>>]>>
=============================================================================
