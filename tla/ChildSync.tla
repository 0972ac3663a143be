------------------------------ MODULE ChildSync ------------------------------
(***************************************************************************)
(* The example operators on top of koprs: configmapsync, secretsync and    *)
(* serviceaccountsync copy data of a custom resource to a child object;    *)
(* apiconfigsync polls a URL and writes what it serves.  One custom        *)
(* resource, the children it owns, and the reconciles of its controller,   *)
(* call by call.                                                           *)
(*                                                                         *)
(* Four parties interleave: users edit the resource and tamper with the    *)
(* child; the API server (external) stores both; kube-runtime (external)   *)
(* feeds a cache of the resource, in order but late, and starts a          *)
(* reconcile of the cached copy for every event; the reconcile works on    *)
(* that copy while the original moves on.  A reconcile that is dropped     *)
(* (timeout, lost lease, crash) leaves the call it was waiting for behind, *)
(* and the server may still serve it.                                      *)
(*                                                                         *)
(* The data of the child is the number of the edit it comes from.          *)
(***************************************************************************)
EXTENDS Naturals, Sequences

CONSTANTS
  Operators,     \* the operators to choose from
  Namespaces,    \* where children can be synced to
  NoNamespace,   \* `no namespace': label absent
  Stamps,        \* lastTransitionTimes, compared only for equality
  NoStamp,       \* the resource has no Ready condition yet
  Home,          \* the first spec.targetNamespace of a resource
  Targets,       \* the values users change it to
  MaxEdits,      \* bound: edits of the resource and tampering with the child
  MaxErrors,     \* bound: calls that fail although they could succeed
  MaxDropped,    \* bound: reconciles dropped with a call under way
  MaxFaults      \* bound: both together

ASSUME SyncAssumption ==
  /\ Operators \subseteq {"configmapsync", "secretsync", "serviceaccountsync",
                          "apiconfigsync"}
  /\ NoNamespace \notin Namespaces /\ NoStamp \notin Stamps
  /\ Home \in Namespaces /\ Targets \subseteq Namespaces
  /\ MaxEdits \in Nat /\ MaxErrors \in Nat /\ MaxDropped \in Nat
  /\ MaxFaults \in Nat

VARIABLES
  op,      \* the operator; no step changes it
  cr,      \* the custom resource on the server
  child,   \* the data of the child in each namespace, 0 when there is none
  remote,  \* what the URL of an ApiConfigSync serves, 0 when it answers 404
  left,    \* namespaces some spec pointed to that is edited or gone
  token,   \* the Secret with its bearer token exists
  feed,    \* versions of the resource the cache has not seen yet
  news,    \* a watch event of the child is on its way
  cached,  \* the cached copy of the resource
  queued,  \* a reconcile of the resource is due
  at,      \* the call the current reconcile makes next, "Idle" when none runs
  job,     \* the copy of the resource it works on
  body,    \* what it has polled, 0 before
  late,    \* calls of dropped reconciles that may still be served
  edits, errors, dropped   \* counters of the bounds

server == <<cr, child, feed, news, left>>
world  == <<op, remote, token>>
bounds == <<edits, errors, dropped>>
vars == <<world, server, cached, queued, at, job, body, late, bounds>>

Drift == MaxEdits + 1   \* data of the child nobody asked for
Blank == MaxEdits + 2   \* the empty data of a URL that answers 404
Data  == 0 .. Blank

Crs == [exists : BOOLEAN, deleting : BOOLEAN, finalizer : BOOLEAN,
        spec : 0 .. MaxEdits, permitted : BOOLEAN, target : Namespaces,
        label : Namespaces \cup {NoNamespace},
        synced : 0 .. MaxEdits, stamp : Stamps \cup {NoStamp}]

\* No resource; the next one will be created with the target Home.
NoCr == [exists |-> FALSE, deleting |-> FALSE, finalizer |-> FALSE,
         spec |-> 0, permitted |-> TRUE, target |-> Home, label |-> NoNamespace,
         synced |-> 0, stamp |-> NoStamp]

-----------------------------------------------------------------------------
(***************************************************************************)
(* The operators: the calls of their reconciles, in order.  Event follows  *)
(* an Apply that changed the child.                                        *)
(***************************************************************************)
ConfigMapSync ==
  [sync    |-> <<"AddFinalizer", "Apply", "Event", "Collect", "Label", "Status">>,
   cleanup |-> <<"DeleteChild", "RemoveFinalizer">>]

SecretSync ==
  [sync    |-> <<"AddFinalizer", "Apply", "Event", "Collect", "Label", "Status">>,
   cleanup |-> <<"DeleteChild", "RemoveFinalizer">>]

ServiceAccountSync ==
  [sync    |-> <<"AddFinalizer", "Apply", "Event", "Collect", "Label", "Status">>,
   cleanup |-> <<"DeleteChild", "RemoveFinalizer">>]

ApiConfigSync ==
  [sync    |-> <<"AddFinalizer", "Policy", "Token", "Poll",
                 "Apply", "Event", "Collect", "Label", "Status">>,
   cleanup |-> <<"DeleteChild", "RemoveFinalizer">>]

CallsOf(o) == CASE o = "configmapsync"      -> ConfigMapSync
                [] o = "secretsync"         -> SecretSync
                [] o = "serviceaccountsync" -> ServiceAccountSync
                [] o = "apiconfigsync"      -> ApiConfigSync

\* The controllers of multicontroller watch their resources only.
WatchesChild(o) == o \in {"configmapsync", "apiconfigsync"}

Polls(o) == o = "apiconfigsync"

Cleanup == {"DeleteChild", "RemoveFinalizer"}
Reads   == {"Policy", "Token", "Poll"}   \* nothing changes on the server
Writes  == {"AddFinalizer", "Apply", "Label", "Status"} \cup Cleanup
Calls   == Reads \cup Writes \cup {"Event", "Collect"}

TypeOK ==
  /\ cr \in Crs /\ cached \in Crs /\ job \in Crs
  /\ feed \in Seq(Crs)
  /\ op \in Operators
  /\ child \in [Namespaces -> Data]
  /\ remote \in 0 .. MaxEdits /\ token \in BOOLEAN
  /\ left \subseteq Namespaces
  /\ body \in Data
  /\ Polls(op) /\ at = "Apply" => body # 0
  /\ news \in BOOLEAN /\ queued \in BOOLEAN
  /\ at \in Calls \cup {"Idle"} /\ (at \in Reads => Polls(op))
  /\ at = "Idle" <=> ~job.exists
  /\ at \in Cleanup => job.deleting
  /\ late \subseteq [call : Writes, job : Crs, body : Data]
  /\ edits \in 0 .. MaxEdits
  /\ errors \in 0 .. MaxErrors /\ dropped \in 0 .. MaxDropped
  /\ errors + dropped <= MaxFaults

Init ==
  /\ op \in Operators
  /\ remote = 0 /\ token = TRUE
  /\ body = 0 /\ left = {}
  /\ cr = NoCr /\ cached = NoCr /\ job = NoCr
  /\ child = [n \in Namespaces |-> 0]
  /\ feed = <<>> /\ news = FALSE
  /\ queued = FALSE
  /\ at = "Idle"
  /\ late = {}
  /\ edits = 0 /\ errors = 0 /\ dropped = 0

-----------------------------------------------------------------------------
(***************************************************************************)
(* The server.  A write that changes nothing makes no new version.         *)
(***************************************************************************)
PutCr(new) ==
  /\ cr' = new
  /\ feed' = IF new = cr THEN feed ELSE Append(feed, new)
  /\ left' = IF new.target = cr.target THEN left ELSE left \cup {cr.target}

PutChild(n, data) ==
  /\ child' = [child EXCEPT ![n] = data]
  /\ news' = (news \/ child[n] # data)

\* Removing the last finalizer of a resource that is being deleted ends it.
WithoutFinalizer == IF cr.deleting THEN NoCr ELSE [cr EXCEPT !.finalizer = FALSE]

\* Calls that are not refused.  A finalizer patch tests the finalizers of the
\* copy; nothing is added to a resource that is being deleted.  The URL of the
\* copy must satisfy the operator's policy and the Secret must be there.
Allowed(call, j) ==
  CASE call = "AddFinalizer"    -> cr.exists /\ ~cr.deleting /\ ~cr.finalizer
    [] call = "RemoveFinalizer" -> cr.finalizer
    [] call \in {"Label", "Status"} -> cr.exists
    [] call = "Policy" -> j.permitted
    [] call = "Token"  -> token
    [] OTHER -> TRUE

\* The desired child of the copy j, with b the answer of the poll.
Desired(j, b) == IF Polls(op) THEN b ELSE j.spec

\* upsert_condition: the time of a condition that stays True is kept, as far as
\* the copy knows it.
StampsFor(j) == IF j.stamp = NoStamp THEN Stamps ELSE {j.stamp}

\* The whole status goes in one server-side apply, forced.
patch_status(j) ==
  \E s \in StampsFor(j) : PutCr([cr EXCEPT !.synced = j.spec, !.stamp = s])

\* What the call does on the server.  gc_resources lists the children of this
\* resource in the target namespace and keeps the one it has just applied.
Serve(call, j, b) ==
  \/ /\ call = "AddFinalizer"
     /\ PutCr([cr EXCEPT !.finalizer = TRUE])
     /\ UNCHANGED <<child, news>>
  \/ /\ call = "RemoveFinalizer"
     /\ PutCr(WithoutFinalizer)
     /\ UNCHANGED <<child, news>>
  \/ /\ call = "Label"
     /\ PutCr([cr EXCEPT !.label = j.target])
     /\ UNCHANGED <<child, news>>
  \/ /\ call = "Status"
     /\ patch_status(j)
     /\ UNCHANGED <<child, news>>
  \/ /\ call = "Apply"
     /\ PutChild(j.target, Desired(j, b))
     /\ UNCHANGED <<cr, feed, left>>
  \/ /\ call = "DeleteChild"
     /\ PutChild(j.target, 0)
     /\ UNCHANGED <<cr, feed, left>>
  \/ call \in Reads \cup {"Event", "Collect"} /\ UNCHANGED server

-----------------------------------------------------------------------------
(***************************************************************************)
(* Users, and whoever else writes the objects.                             *)
(***************************************************************************)
Edit == edits < MaxEdits /\ edits' = edits + 1

idle == <<cached, queued, at, job, body, late, errors, dropped>>

\* The policy is about the URL of an ApiConfigSync.
Urls == IF Polls(op) THEN BOOLEAN ELSE {TRUE}

Create ==
  /\ Edit /\ ~cr.exists
  /\ \E p \in Urls :
       PutCr([NoCr EXCEPT !.exists = TRUE, !.spec = edits', !.permitted = p])
  /\ UNCHANGED <<world, child, news, idle>>

EditSpec ==
  /\ Edit /\ cr.exists
  /\ \E p \in Urls : PutCr([cr EXCEPT !.spec = edits', !.permitted = p])
  /\ UNCHANGED <<world, child, news, idle>>

\* targetNamespace is edited; it counts as two edits.
Retarget ==
  /\ edits + 1 < MaxEdits /\ edits' = edits + 2
  /\ cr.exists
  /\ \E n \in Targets \ {cr.target} :
       PutCr([cr EXCEPT !.spec = edits', !.target = n])
  /\ UNCHANGED <<world, child, news, idle>>

Delete ==
  /\ Edit /\ cr.exists /\ ~cr.deleting
  /\ PutCr(IF cr.finalizer THEN [cr EXCEPT !.deleting = TRUE] ELSE NoCr)
  /\ UNCHANGED <<world, child, news, idle>>

\* Somebody overwrites or deletes the child.
Tamper ==
  /\ Edit
  /\ \E n \in Namespaces, data \in {0, Drift} :
       child[n] # 0 /\ PutChild(n, data)
  /\ UNCHANGED <<world, cr, feed, left, idle>>

\* The URL serves something else, or nothing any more.
Publish ==
  /\ Edit /\ Polls(op)
  /\ remote' \in {0, edits'} \ {remote}
  /\ UNCHANGED <<op, token, server, idle>>

\* The Secret with the token is created or deleted.
ToggleToken ==
  /\ Edit /\ Polls(op)
  /\ token' = ~token
  /\ UNCHANGED <<op, remote, server, idle>>

-----------------------------------------------------------------------------
(***************************************************************************)
(* kube-runtime: watches and queue.                                        *)
(***************************************************************************)
\* The cache takes the next version; only a deletion queues nothing.
Deliver ==
  /\ feed # <<>>
  /\ cached' = Head(feed)
  /\ feed' = Tail(feed)
  /\ queued' = (queued \/ Head(feed).exists)
  /\ UNCHANGED <<world, cr, child, news, left, at, job, body, late, bounds>>

\* Seeded faults stand before the definition they replace.
\* The mapper looks for the resource in the namespace of the child.
DeliverNewsUnmapped ==
  /\ news
  /\ news' = FALSE
  /\ UNCHANGED <<world, cr, child, feed, left, cached, queued, at, job, body,
                 late, bounds>>

\* owner_labels_mapper leads from the child to the resource.
DeliverNews ==
  /\ news
  /\ news' = FALSE
  /\ queued' = (queued \/ WatchesChild(op))
  /\ UNCHANGED <<world, cr, child, feed, left, cached, at, job, body, late, bounds>>

\* Action::requeue(300s) of a reconcile that succeeded; by then the cache has
\* caught up.
Requeue ==
  /\ at = "Idle" /\ feed = <<>> /\ cached.exists /\ ~cached.deleting
  /\ queued' = TRUE
  /\ UNCHANGED <<world, server, cached, at, job, body, late, bounds>>

-----------------------------------------------------------------------------
(***************************************************************************)
(* The reconcile.                                                          *)
(***************************************************************************)
Started == UNCHANGED <<world, server, cached, body, late, bounds>>

\* The finalizer is taken for granted.
BeginWithoutFinalizer ==
  /\ at = "Idle" /\ queued
  /\ queued' = FALSE
  /\ job' = cached
  /\ at' = IF ~cached.exists THEN "Idle"
           ELSE IF cached.deleting THEN "DeleteChild"
           ELSE CallsOf(op).sync[2]
  /\ Started

\* The path is chosen from the original, the work is done on the copy.
BeginFromServer ==
  /\ at = "Idle" /\ queued
  /\ queued' = FALSE
  /\ job' = cached
  /\ at' = IF ~cached.exists THEN "Idle"
           ELSE IF cr.deleting THEN "DeleteChild"
           ELSE IF cached.finalizer THEN CallsOf(op).sync[2]
           ELSE "AddFinalizer"
  /\ Started

\* An object that is no longer in the cache is not reconciled.
Begin ==
  /\ at = "Idle" /\ queued
  /\ queued' = FALSE
  /\ job' = cached
  /\ at' = IF ~cached.exists THEN "Idle"
           ELSE IF cached.deleting THEN "DeleteChild"
           ELSE IF cached.finalizer THEN CallsOf(op).sync[2]
           ELSE "AddFinalizer"
  /\ Started

\* The calls that may follow one that succeeded; "Idle" ends the reconcile.
\* Whether an Event follows depends on the outcome of ensure_resource, which a
\* write of somebody else between its two calls can turn either way.
After(call, j) ==
  LET calls == IF call \in Cleanup THEN CallsOf(op).cleanup ELSE CallsOf(op).sync
      i     == CHOOSE k \in DOMAIN calls : calls[k] = call
  IN  CASE i = Len(calls)                        -> {"Idle"}
        [] call = "DeleteChild" /\ ~j.finalizer -> {"Idle"}
        [] call = "Apply"                        -> {calls[i + 1], calls[i + 2]}
        [] OTHER                                 -> {calls[i + 1]}

\* The answer of the fresh HttpPoller: a 404 makes an empty child.
Answer == IF remote = 0 THEN Blank ELSE remote

Proceed ==
  /\ at # "Idle"
  /\ Allowed(at, job) /\ Serve(at, job, body)
  /\ at' \in After(at, job)
  /\ job' = IF at' = "Idle" THEN NoCr ELSE job
  /\ body' = CASE at = "Poll" -> Answer [] at' = "Idle" -> 0 [] OTHER -> body
  /\ UNCHANGED <<world, cached, queued, late, bounds>>

\* A failed reconcile waits for the next event.
AbortAndWait == at' = "Idle" /\ job' = NoCr /\ body' = 0 /\ UNCHANGED queued

\* A failed call ends the reconcile; error_policy requeues after 5s.
Abort == at' = "Idle" /\ job' = NoCr /\ body' = 0 /\ queued' = TRUE

Refused ==
  /\ at # "Idle" /\ ~Allowed(at, job)
  /\ Abort
  /\ UNCHANGED <<world, server, cached, late, bounds>>

\* The call fails before it reached the server, or its reply is lost.
Error ==
  /\ at # "Idle"
  /\ errors < MaxErrors /\ errors + dropped < MaxFaults
  /\ errors' = errors + 1
  /\ Abort
  /\ UNCHANGED server \/ (Allowed(at, job) /\ Serve(at, job, body))
  /\ UNCHANGED <<world, cached, late, edits, dropped>>

\* The reconcile is dropped with its call under way: it timed out, or the
\* process lost the lease or crashed and another one begins with a new list.
Drop ==
  /\ at # "Idle"
  /\ dropped < MaxDropped /\ errors + dropped < MaxFaults
  /\ dropped' = dropped + 1
  /\ late' = late \cup {e \in {[call |-> at, job |-> job, body |-> body]} :
                          at \in Writes}
  /\ Abort
  /\ \/ UNCHANGED <<cached, feed>>
     \/ cached' = cr /\ feed' = <<>>
  /\ UNCHANGED <<world, cr, child, news, left, edits, errors>>

Land ==
  /\ \E e \in late :
       /\ late' = late \ {e}
       /\ IF Allowed(e.call, e.job) THEN Serve(e.call, e.job, e.body)
                                    ELSE UNCHANGED server
  /\ UNCHANGED <<world, cached, queued, at, job, body, bounds>>

Next ==
  \/ Create \/ EditSpec \/ Retarget \/ Delete \/ Tamper \/ Publish \/ ToggleToken
  \/ Deliver \/ DeliverNews \/ Requeue
  \/ Begin \/ Proceed \/ Refused \/ Error \/ Drop
  \/ Land

Spec == Init /\ [][Next]_vars

\* Events are delivered and the reconcile goes on.  The 300s requeue is relied
\* on only where no watch tells of the change: a child nobody watches, a URL.
\* Nothing says that users stop or that a late call lands.
Fairness ==
  /\ WF_vars(Deliver) /\ WF_vars(DeliverNews)
  /\ WF_vars(Begin) /\ WF_vars(Proceed) /\ WF_vars(Refused)
  /\ WF_vars((Polls(op) \/ ~WatchesChild(op)) /\ Requeue)

FairSpec == Spec /\ Fairness

-----------------------------------------------------------------------------
(***************************************************************************)
(* Properties.                                                             *)
(***************************************************************************)

\* As long as no reconcile is dropped, a child never exists without a resource
\* whose finalizer will clean it up (configmapsync/src/reconciler.rs:53-100:
\* finalizer first, removed last), but where a target was edited away or went
\* with its resource: nothing collects a child there.
ChildGuarded ==
  dropped = 0 /\ (\E n \in Namespaces \ left : child[n] # 0)
    => cr.exists /\ cr.finalizer

\* When edits, errors and drops end, either the resource is gone or the child
\* is what its spec asks for, whatever was stale, lost or late.  An
\* ApiConfigSync whose URL is refused or whose Secret is missing keeps its
\* finalizer and the child it has.
Blocked == Polls(op) /\ (~cr.permitted \/ ~token)
Wanted  == IF Polls(op) THEN Answer ELSE cr.spec
Settled ==
  cr.exists => ~cr.deleting /\ cr.finalizer /\ (Blocked \/ child[cr.target] = Wanted)
Converges == <>[]Settled

\* `Garbage-collect stale ConfigMaps previously owned by this CR'
\* (configmapsync/src/reconciler.rs:127), and the cleanup path: a resource that
\* is gone leaves no child behind.
NothingLeftBehind == ~cr.exists => \A n \in Namespaces : child[n] = 0

\* `lastTransitionTime is preserved so the transition clock is not reset
\* unnecessarily' (status.rs:337-339): Ready stays True, so its time stays.
ReadySinceKept ==
  [][cr.exists /\ cr'.exists /\ cr.stamp # NoStamp => cr'.stamp = cr.stamp]_vars
=============================================================================
