--------------------------- MODULE Admission_proofs ---------------------------
(***************************************************************************)
(* Theorems about Admission, for any specs, policy, connections and        *)
(* time-outs: what gets past the webhook, and that the webhook with a      *)
(* validator behind it is still the server of Webhook.                     *)
(***************************************************************************)
EXTENDS Admission, Webhook_proofs

-----------------------------------------------------------------------------
(***************************************************************************)
(* The verdict.                                                            *)
(***************************************************************************)
\* The validator allows nothing but specs that keep every rule.
LEMMA AllowedIsFit ==
  ASSUME NEW old, NEW new \in Crs, admit(old, new) = "allowed" PROVE Fit(new.spec)
<1>1. new.spec \in SpecType
  BY AdmissionAssumption DEF Crs
<1>2. new.spec.parses /\ check(new.spec.url) /\ new.spec.complete
  BY DEF admit, validate
<1> QED BY <1>1, <1>2 DEF Fit, check, SpecType, Urls

\* What is kept is the object itself; while it is being deleted, a finalizer
\* holds it.
LEMMA KeptObject ==
  ASSUME NEW o \in Crs
  PROVE  /\ Kept(o) \in {{}} \cup {{x} : x \in Crs}
         /\ \A x \in Kept(o) : x = o /\ (x.deleting => x.finalizer)
BY DEF Kept, Crs

-----------------------------------------------------------------------------
(***************************************************************************)
(* The connections.                                                        *)
(***************************************************************************)
\* A request whose body is complete is being handled, the other connections are
\* not touched.
LEMMA BodyEnters ==
  ASSUME TypeOK, NEW c \in Conns, BodyArrives(c)
  PROVE  /\ conn[c] = "Body" /\ conn'[c] = "Handling" /\ phase' \notin Over
         /\ \A d \in Conns \ {c} : conn'[d] = conn[d]
<1>1. conn[c] = "Body" /\ Open /\ Enter(c, "Handling")
  BY DEF BodyArrives, ClientSends
<1>2. conn \in [Conns -> Stages]
  BY DEF TypeOK
<1> QED BY <1>1, <1>2 DEF Enter, Move, Open, Over, run

\* Every step is one of the server's, or leaves the server alone.
LEMMA AdmissionRefines == AdmissionNext => [Next]_vars
<1> SUFFICES ASSUME AdmissionNext PROVE [Next]_vars
  OBVIOUS
<1>1. CASE UserDeletes
  BY <1>1 DEF UserDeletes
<1>2. CASE \E c \in Conns : BodyArrives(c) \/ Decide(c)
  BY <1>2 DEF BodyArrives, Decide, Next
<1>3. CASE ServerStep
  BY <1>3 DEF ServerStep, Next
<1> QED BY <1>1, <1>2, <1>3 DEF AdmissionNext

\* The webhook with a validator behind it implements the server of Webhook: what
\* the API server and its writes do is nothing the server does not meet there.
THEOREM AdmissionIsAWebhook == AdmissionSpec => Spec
<1>1. AdmissionInit => Init
  BY DEF AdmissionInit
<1>2. [AdmissionNext]_avars => [Next]_vars
  BY AdmissionRefines DEF avars
<1> QED BY <1>1, <1>2, PTL DEF AdmissionSpec, Spec

\* With reviews under way too, run returns over an open connection only when the
\* drain timed out.
THEOREM ReviewsAreDrained == AdmissionSpec => [](TypeOK /\ DrainIsComplete)
BY AdmissionIsAWebhook, TypeCorrect, DrainEndsInOrder, PTL

\* With a request time-out below the drain's no review that was before the
\* validator when the drain began is cut off.
THEOREM ReviewersAreAnswered ==
  ASSUME PatientDrain PROVE AdmissionSpec => []HandlersFinish
BY AdmissionIsAWebhook, HandlersAreAnswered, PTL

-----------------------------------------------------------------------------
(***************************************************************************)
(* The API server.                                                         *)
(***************************************************************************)
LEMMA AdmissionTypeStep ==
  TypeOK /\ AdmissionTypeOK /\ [AdmissionNext]_avars => AdmissionTypeOK'
<1> SUFFICES ASSUME TypeOK, AdmissionTypeOK, [AdmissionNext]_avars
             PROVE  AdmissionTypeOK'
  OBVIOUS
<1> DEFINE StoredOK == /\ stored \in {{}} \cup {{o} : o \in Crs}
                       /\ \A o \in stored : o.deleting => o.finalizer
           ReviewOK == /\ review \in {{}} \cup {{r} : r \in Reviews}
                       /\ \A r \in review : conn[r.conn] = "Handling" /\ phase \notin Over
<1>1. StoredOK /\ ReviewOK
  BY DEF AdmissionTypeOK
<1> SUFFICES StoredOK' /\ ReviewOK'
  BY DEF AdmissionTypeOK
<1>2. CASE UserDeletes
  <2>1. PICK o \in stored : stored' = Kept([o EXCEPT !.deleting = TRUE])
    BY <1>2 DEF UserDeletes
  <2>2. o \in Crs /\ [o EXCEPT !.deleting = TRUE] \in Crs
    BY <1>1 DEF Crs
  <2>3. StoredOK'
    BY <2>1, <2>2, KeptObject
  <2>4. UNCHANGED <<review, conn, phase>>
    BY <1>2 DEF UserDeletes, vars, conns, run
  <2> QED BY <1>1, <2>3, <2>4
<1>3. ASSUME NEW c \in Conns, BodyArrives(c) PROVE StoredOK' /\ ReviewOK'
  <2>1. /\ conn[c] = "Body" /\ conn'[c] = "Handling" /\ phase' \notin Over
        /\ \A d \in Conns \ {c} : conn'[d] = conn[d]
    BY <1>3, BodyEnters
  <2>2. CASE UNCHANGED review
    <3>1. \A r \in review : r.conn \in Conns \ {c}
      BY <1>1, <2>1 DEF Reviews
    <3> QED BY <1>1, <1>3, <2>1, <2>2, <3>1 DEF BodyArrives
  <2>3. CASE \E w \in Crs : review' = {[conn |-> c, old |-> stored, new |-> w]}
    <3>1. PICK w \in Crs : review' = {[conn |-> c, old |-> stored, new |-> w]}
      BY <2>3
    <3>2. [conn |-> c, old |-> stored, new |-> w] \in Reviews
      BY <1>1 DEF Reviews
    <3> QED BY <1>1, <1>3, <2>1, <3>1, <3>2 DEF BodyArrives
  <2> QED BY <1>3, <2>2, <2>3 DEF BodyArrives
<1>4. ASSUME NEW c \in Conns, Decide(c) PROVE StoredOK' /\ ReviewOK'
  <2>1. PICK r \in review :
          stored' = IF admit(r.old, r.new) = "allowed" /\ stored = r.old
                    THEN Kept(r.new) ELSE stored
    BY <1>4 DEF Decide
  <2>2. r.new \in Crs
    BY <1>1 DEF Reviews
  <2> QED BY <1>1, <1>4, <2>1, <2>2, KeptObject DEF Decide
<1>5. CASE review' = {r \in review : ~Answered(r)} /\ UNCHANGED stored
  BY <1>1, <1>5 DEF Answered
<1>6. CASE UNCHANGED avars
  BY <1>1, <1>6 DEF avars, vars, conns, run
<1> QED BY <1>2, <1>3, <1>4, <1>5, <1>6 DEF AdmissionNext

\* The object on the server and the review have their types; an object that is
\* being deleted has its finalizer, and a review is never left without a handler:
\* not by a time-out, a disconnect, the drain or the end of the process.
THEOREM ReviewsAreHandled == AdmissionSpec => []AdmissionTypeOK
<1>1. AdmissionInit => AdmissionTypeOK
  BY DEF AdmissionInit, AdmissionTypeOK
<1>2. AdmissionSpec => []TypeOK
  BY AdmissionIsAWebhook, TypeCorrect, PTL
<1> QED BY <1>1, <1>2, AdmissionTypeStep, PTL DEF AdmissionSpec

\* A spec that gets into the cluster keeps the rules of the policy, whatever the
\* webhook's connections and the other writers do meanwhile: the webhook fails
\* closed.
THEOREM WebhookFailsClosed == AdmissionSpec => FailsClosed
<1>1. AdmissionTypeOK /\ [AdmissionNext]_avars
        => [\A o \in stored' : Fit(o.spec) \/ \E p \in stored : p.spec = o.spec]_avars
  <2> SUFFICES ASSUME AdmissionTypeOK, AdmissionNext, NEW o \in stored'
               PROVE  Fit(o.spec) \/ \E p \in stored : p.spec = o.spec
    OBVIOUS
  <2>1. CASE stored' = stored
    BY <2>1
  <2>2. CASE UserDeletes
    <3>1. PICK p \in stored : stored' = Kept([p EXCEPT !.deleting = TRUE])
      BY <2>2 DEF UserDeletes
    <3>2. p \in Crs /\ [p EXCEPT !.deleting = TRUE] \in Crs
      BY DEF AdmissionTypeOK, Crs
    <3>3. o = [p EXCEPT !.deleting = TRUE]
      BY <3>1, <3>2, KeptObject
    <3> QED BY <3>2, <3>3 DEF Crs
  <2>3. CASE \E c \in Conns : Decide(c)
    <3>1. PICK r \in review :
            stored' = IF admit(r.old, r.new) = "allowed" /\ stored = r.old
                      THEN Kept(r.new) ELSE stored
      BY <2>3 DEF Decide
    <3>2. r.new \in Crs /\ r.new.spec \in Specs
      BY DEF AdmissionTypeOK, Reviews, Crs
    <3>3. CASE admit(r.old, r.new) = "allowed" /\ stored' = Kept(r.new)
      BY <3>2, <3>3, KeptObject, AllowedIsFit
    <3> QED BY <2>1, <3>1, <3>3
  <2> QED BY <2>1, <2>2, <2>3 DEF AdmissionNext, BodyArrives
<1> QED BY <1>1, ReviewsAreHandled, PTL DEF AdmissionSpec, FailsClosed
=============================================================================
