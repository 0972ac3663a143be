------------------------------ MODULE Admission ------------------------------
(***************************************************************************)
(* The webhook server with apiconfigsync's validator behind it, and the    *)
(* API server (external), which stores an ApiConfigSync only when the      *)
(* webhook has allowed the write (manifests/webhook.yaml: failurePolicy    *)
(* Fail, rules CREATE and UPDATE).  Reviews travel over the connections of *)
(* Webhook, with its time-outs, shutdown and drain.  The reply carries the *)
(* uid of its request; here it is the reply on the review's connection.    *)
(*                                                                         *)
(* The resource may have been stored by an earlier process with another    *)
(* policy, or while the webhook was not installed.                         *)
(***************************************************************************)
EXTENDS Webhook

CONSTANTS
  Specs,     \* the specs users write
  Policy     \* the operator's UrlPolicy

Hosts == {"public", "listed", "internal"}
Urls  == [scheme : {"https", "http", "other"}, credentials : BOOLEAN, host : Hosts]

\* parses: it is an ApiConfigSync as this operator knows them.  complete: the
\* target namespace, the key and a token reference, if any, are not empty.
SpecType == [parses : BOOLEAN, url : Urls, complete : BOOLEAN]

ASSUME AdmissionAssumption ==
  /\ Specs \subseteq SpecType
  /\ Policy \in [allowed_hosts : SUBSET Hosts,
                 allow_http : BOOLEAN, allow_private_networks : BOOLEAN]

VARIABLES
  stored,    \* the ApiConfigSync on the server, {} for none
  review     \* the review of a write of it under way, {} for none

avars == <<vars, stored, review>>

Crs     == [spec : Specs, finalizer : BOOLEAN, deleting : BOOLEAN]
Reviews == [conn : Conns, old : {{}} \cup {{o} : o \in Crs}, new : Crs]

AdmissionTypeOK ==
  /\ stored \in {{}} \cup {{o} : o \in Crs}
  /\ \A o \in stored : o.deleting => o.finalizer
  /\ review \in {{}} \cup {{r} : r \in Reviews}
  /\ \A r \in review : conn[r.conn] = "Handling" /\ phase \notin Over

AdmissionInit ==
  /\ Init
  /\ stored \in {{}} \cup {{o} : o \in {x \in Crs : x.deleting => x.finalizer}}
  /\ review = {}

-----------------------------------------------------------------------------
(***************************************************************************)
(* The verdict.                                                            *)
(***************************************************************************)
\* UrlPolicy::check: scheme, credentials, host, allow-list.
check(url) ==
  /\ url.scheme = "https" \/ (url.scheme = "http" /\ Policy.allow_http)
  /\ ~url.credentials
  /\ url.host = "internal" => Policy.allow_private_networks
  /\ Policy.allowed_hosts # {} => url.host \in Policy.allowed_hosts

\* ApiConfigSyncValidator::validate.
validate(spec) == IF check(spec.url) /\ spec.complete THEN "allowed" ELSE "403"

\* Seeded faults stand before the definition they replace.
\* What cannot be parsed is taken for an object that is not there.
admitLeniently(old, new) == IF new.spec.parses THEN validate(new.spec) ELSE "allowed"

\* admit: a review whose object or oldObject does not parse is denied.
admit(old, new) ==
  IF \A o \in old \cup {new} : o.spec.parses THEN validate(new.spec) ELSE "400"

-----------------------------------------------------------------------------
(***************************************************************************)
(* The API server.                                                         *)
(***************************************************************************)
\* Writes that are reviewed: users create and edit, the operator adds its
\* finalizer or, at the end of its cleanup, removes it.  Its typed client cannot
\* read what does not parse.
Write(w) ==
  \/ stored = {} /\ ~w.finalizer /\ ~w.deleting
  \/ \E o \in stored :
       \/ w.spec # o.spec /\ w = [o EXCEPT !.spec = w.spec]
       \/ o.spec.parses /\ o.finalizer = o.deleting /\ w = [o EXCEPT !.finalizer = ~@]

\* The body of a request is complete: a review of the resource, or of another.
BodyArrives(c) ==
  /\ conn[c] = "Body" /\ ClientSends(c)
  /\ \/ UNCHANGED review
     \/ /\ review = {}
        /\ \E w \in Crs : Write(w) /\ review' = {[conn |-> c, old |-> stored, new |-> w]}
  /\ UNCHANGED stored

\* Without its last finalizer an object that is being deleted ends.
Kept(o) == IF o.deleting /\ ~o.finalizer THEN {} ELSE {o}

\* The validator's result is dropped and the request left open.
DecideWithoutReply(c) ==
  /\ Answer(c)
  /\ \E r \in review : r.conn = c
  /\ UNCHANGED <<stored, review>>

\* An allowed write is stored, unless the resource has changed since: then the
\* API server starts again or reports a conflict.
Decide(c) ==
  /\ Answer(c)
  /\ \E r \in review :
       /\ r.conn = c
       /\ stored' = IF admit(r.old, r.new) = "allowed" /\ stored = r.old
                    THEN Kept(r.new) ELSE stored
  /\ review' = {}

\* DELETE is not reviewed.
UserDeletes ==
  /\ \E o \in stored : ~o.deleting /\ stored' = Kept([o EXCEPT !.deleting = TRUE])
  /\ UNCHANGED <<vars, review>>

\* Every other step of the server.
ServerStep ==
  \/ RunStep \/ SignalTask \/ BindFails \/ BeginDrain \/ Signal
  \/ AcceptFails \/ Tick
  \/ \E c \in Conns :
       \/ Accept(c) \/ StartTask(c) \/ Refuse(c) \/ Disconnect(c) \/ Timeout(c)
       \/ CloseIdle(c)
       \/ Answer(c) /\ \A r \in review : r.conn # c
       \/ conn[c] # "Body" /\ ClientSends(c)

\* A review whose handler was dropped or whose process ended was not allowed.
Answered(r) == conn'[r.conn] # "Handling" \/ phase' \in Over

AdmissionNext ==
  \/ UserDeletes
  \/ \E c \in Conns : BodyArrives(c) \/ Decide(c)
  \/ ServerStep /\ review' = {r \in review : ~Answered(r)} /\ UNCHANGED stored

\* Accepts that fail over and over do not keep time from passing.
AdmissionSpec ==
  AdmissionInit /\ [][AdmissionNext]_avars /\ Fairness /\ SF_vars(Tick)

-----------------------------------------------------------------------------
(***************************************************************************)
(* Properties.                                                             *)
(***************************************************************************)

\* A spec gets into the cluster only if it satisfies the rules the validator
\* lists (validator.rs:9-15, url_policy.rs:14-20), whatever does not parse, times
\* out, is cut off by the drain or loses its connection.
Fit(spec) ==
  /\ spec.parses /\ spec.complete
  /\ spec.url.scheme # "other" /\ ~spec.url.credentials
  /\ spec.url.scheme = "http" => Policy.allow_http
  /\ spec.url.host = "internal" => Policy.allow_private_networks
  /\ spec.url.host \in Policy.allowed_hosts \/ Policy.allowed_hosts = {}
FailsClosed ==
  [][\A o \in stored' : Fit(o.spec) \/ \E p \in stored : p.spec = o.spec]_avars

\* A review ends: the validator answers, or the time-out does, or the process.
ReviewsEnd == review # {} ~> review = {}

\* `On deletion - removes the synced ConfigMap, then removes its own finalizer
\* (leaving any others in place) to allow the CR to be fully deleted'
\* (examples/apiconfigsync/README.md:55): the removal is admitted, for an object
\* that parses.
CleanupAdmitted ==
  \A r \in review :
    r.new.spec.parses /\ r.new.deleting /\ ~r.new.finalizer
      => admit(r.old, r.new) = "allowed"
=============================================================================
