-------------------------- MODULE ChildSync_proofs --------------------------
(***************************************************************************)
(* Proofs about ChildSync: the types, and that a child never exists        *)
(* without a finalizer that will clean it up.                              *)
(***************************************************************************)
EXTENDS ChildSync, TLAPS

-----------------------------------------------------------------------------
(***************************************************************************)
(* The calls of a reconcile.                                               *)
(***************************************************************************)
LEMMA IndexOf ==
  ASSUME NEW calls, NEW m \in DOMAIN calls,
         \A k \in DOMAIN calls : calls[k] = calls[m] => k = m
  PROVE  (CHOOSE k \in DOMAIN calls : calls[k] = calls[m]) = m
OBVIOUS

\* The steps of the operators that poll, and of those that do not.
LEMMA SyncCalls ==
  ASSUME op \in Operators
  PROVE  /\ CallsOf(op).sync = IF Polls(op) THEN ApiConfigSync.sync
                                            ELSE ConfigMapSync.sync
         /\ CallsOf(op).cleanup = <<"DeleteChild", "RemoveFinalizer">>
BY SyncAssumption DEF CallsOf, Polls, ConfigMapSync, SecretSync, ServiceAccountSync,
                      ApiConfigSync

\* What comes after a call: never a claim of the finalizer; a removal of it only
\* after the child was deleted; an Apply of an answer only after a poll.
LEMMA NextCall ==
  ASSUME op \in Operators, NEW call \in Calls, call \in Reads => Polls(op),
         NEW j, NEW next \in After(call, j)
  PROVE  /\ next \in Calls \cup {"Idle"} /\ (next \in Reads => Polls(op))
         /\ next # "AddFinalizer"
         /\ next \in Cleanup => call = "DeleteChild" /\ next = "RemoveFinalizer"
         /\ call \in Cleanup => next \in Cleanup \cup {"Idle"}
         /\ Polls(op) /\ next = "Apply" => call = "Poll"
<1>1. CASE call \in Cleanup
  <2> DEFINE calls == <<"DeleteChild", "RemoveFinalizer">>
  <2>1. /\ DOMAIN calls = 1 .. 2 /\ Len(calls) = 2
        /\ calls[1] = "DeleteChild" /\ calls[2] = "RemoveFinalizer"
    OBVIOUS
  <2> HIDE DEF calls
  <2>2. PICK m \in 1 .. 2 : calls[m] = call
    BY <1>1, <2>1 DEF Cleanup
  <2>3. \A k \in 1 .. 2 : k = 1 \/ k = 2
    OBVIOUS
  <2>4. (CHOOSE k \in DOMAIN calls : calls[k] = call) = m
    BY <2>1, <2>2, <2>3, IndexOf
  <2>5. next = "Idle" \/ (call = "DeleteChild" /\ next = "RemoveFinalizer")
    BY <1>1, <2>1, <2>2, <2>3, <2>4, SyncCalls DEF After, calls
  <2> QED BY <1>1, <2>5 DEF Cleanup, Calls, Reads, Writes
<1>2. CASE call \notin Cleanup /\ Polls(op)
  <2> DEFINE calls == ApiConfigSync.sync
  <2>1. /\ DOMAIN calls = 1 .. 9 /\ Len(calls) = 9
        /\ calls[1] = "AddFinalizer" /\ calls[2] = "Policy" /\ calls[3] = "Token"
        /\ calls[4] = "Poll" /\ calls[5] = "Apply" /\ calls[6] = "Event"
        /\ calls[7] = "Collect" /\ calls[8] = "Label" /\ calls[9] = "Status"
    BY DEF ApiConfigSync
  <2>2. CallsOf(op).sync = calls
    BY <1>2, SyncCalls
  <2> HIDE DEF calls
  <2>3. \A k \in 1 .. 9 : k \in {1, 2, 3, 4, 5, 6, 7, 8, 9}
    OBVIOUS
  <2>4. PICK m \in 1 .. 9 : calls[m] = call
    BY <1>2, <2>1 DEF Calls, Reads, Writes, Cleanup
  <2>5. \A k \in DOMAIN calls : calls[k] = calls[m] => k = m
    BY <2>1, <2>3
  <2>6. (CHOOSE k \in DOMAIN calls : calls[k] = call) = m
    BY <2>1, <2>4, <2>5, IndexOf
  <2>7. next = "Idle" \/ (\E k \in 2 .. 9 : next = calls[k] /\ (k = m + 1 \/ k = 7))
    <3>1. call # "DeleteChild" /\ (call = "Apply" => m = 5)
      BY <1>2, <2>1, <2>3, <2>4 DEF Cleanup
    <3>2. After(call, j) = CASE m = Len(calls) -> {"Idle"}
                             [] call = "DeleteChild" /\ ~j.finalizer -> {"Idle"}
                             [] call = "Apply" -> {calls[m + 1], calls[m + 2]}
                             [] OTHER -> {calls[m + 1]}
      BY <1>2, <2>2, <2>6, Zenon DEF After
    <3>3. next \in CASE m = 9 -> {"Idle"}
                   [] call = "Apply" -> {calls[m + 1], calls[m + 2]}
                   [] OTHER -> {calls[m + 1]}
      BY <2>1, <3>1, <3>2
    <3> QED BY <3>1, <3>3
  <2>8. /\ \A k \in 2 .. 9 : calls[k] \in Calls \ (Cleanup \cup {"AddFinalizer"})
        /\ \A k \in 2 .. 9 : calls[k] = "Apply" => k = 5
    BY <2>1, <2>3 DEF Calls, Reads, Writes, Cleanup
  <2>9. CASE next = "Idle"
    BY <1>2, <2>9 DEF Cleanup, Reads
  <2>10. ASSUME NEW k \in 2 .. 9, next = calls[k], k = m + 1 \/ k = 7
         PROVE  /\ next \in Calls \ (Cleanup \cup {"AddFinalizer"})
                /\ next = "Apply" => call = "Poll"
    <3>1. next = "Apply" => k = 5
      BY <2>8, <2>10
    <3>2. k = 5 => m = 4
      BY <2>10
    <3> QED BY <2>1, <2>4, <2>8, <2>10, <3>1, <3>2
  <2> QED BY <1>2, <2>7, <2>9, <2>10
<1>3. CASE call \notin Cleanup /\ ~Polls(op)
  <2> DEFINE calls == ConfigMapSync.sync
  <2>1. /\ DOMAIN calls = 1 .. 6 /\ Len(calls) = 6
        /\ calls[1] = "AddFinalizer" /\ calls[2] = "Apply" /\ calls[3] = "Event"
        /\ calls[4] = "Collect" /\ calls[5] = "Label" /\ calls[6] = "Status"
    BY DEF ConfigMapSync
  <2>2. CallsOf(op).sync = calls
    BY <1>3, SyncCalls
  <2> HIDE DEF calls
  <2>3. \A k \in 1 .. 6 : k \in {1, 2, 3, 4, 5, 6}
    OBVIOUS
  <2>4. PICK m \in 1 .. 6 : calls[m] = call
    BY <1>3, <2>1 DEF Calls, Reads, Writes, Cleanup
  <2>5. \A k \in DOMAIN calls : calls[k] = calls[m] => k = m
    BY <2>1, <2>3
  <2>6. (CHOOSE k \in DOMAIN calls : calls[k] = call) = m
    BY <2>1, <2>4, <2>5, IndexOf
  <2>7. next = "Idle" \/ (\E k \in 2 .. 6 : next = calls[k] /\ (k = m + 1 \/ m = 2))
    <3>1. call # "DeleteChild" /\ (call = "Apply" => m = 2)
      BY <1>3, <2>1, <2>3, <2>4 DEF Cleanup
    <3>2. After(call, j) = CASE m = Len(calls) -> {"Idle"}
                             [] call = "DeleteChild" /\ ~j.finalizer -> {"Idle"}
                             [] call = "Apply" -> {calls[m + 1], calls[m + 2]}
                             [] OTHER -> {calls[m + 1]}
      BY <1>3, <2>2, <2>6, Zenon DEF After
    <3>3. next \in CASE m = 6 -> {"Idle"}
                   [] call = "Apply" -> {calls[m + 1], calls[m + 2]}
                   [] OTHER -> {calls[m + 1]}
      BY <2>1, <3>1, <3>2
    <3> QED BY <3>1, <3>3
  <2>8. \A k \in 2 .. 6 : calls[k] \in Calls \ (Cleanup \cup Reads \cup {"AddFinalizer"})
    BY <2>1, <2>3 DEF Calls, Reads, Writes, Cleanup
  <2> QED BY <1>3, <2>7, <2>8 DEF Cleanup, Reads
<1> QED BY <1>1, <1>2, <1>3

-----------------------------------------------------------------------------
(***************************************************************************)
(* Types.                                                                  *)
(***************************************************************************)
ServerOK ==
  /\ cr \in Crs /\ feed \in Seq(Crs) /\ left \subseteq Namespaces
  /\ child \in [Namespaces -> Data] /\ news \in BOOLEAN

ReconcileOK ==
  /\ cached \in Crs /\ job \in Crs /\ queued \in BOOLEAN
  /\ body \in Data
  /\ Polls(op) /\ at = "Apply" => body # 0
  /\ at \in Calls \cup {"Idle"} /\ (at \in Reads => Polls(op))
  /\ at = "Idle" <=> ~job.exists
  /\ at \in Cleanup => job.deleting

WorldOK ==
  /\ op \in Operators
  /\ remote \in 0 .. MaxEdits /\ token \in BOOLEAN
  /\ edits \in 0 .. MaxEdits
  /\ late \subseteq [call : Writes, job : Crs, body : Data]
  /\ errors \in 0 .. MaxErrors /\ dropped \in 0 .. MaxDropped
  /\ errors + dropped <= MaxFaults

LEMMA TypeParts == TypeOK <=> ServerOK /\ ReconcileOK /\ WorldOK
BY DEF TypeOK, ServerOK, ReconcileOK, WorldOK

LEMMA NoCrType == NoCr \in Crs /\ ~NoCr.exists /\ ~NoCr.deleting /\ ~NoCr.finalizer
BY SyncAssumption DEF NoCr, Crs

LEMMA PutCrType ==
  ASSUME ServerOK, NEW new \in Crs, PutCr(new), UNCHANGED <<child, news>>
  PROVE  ServerOK'
<1>1. feed' \in Seq(Crs)
  BY DEF PutCr, ServerOK
<1>2. cr.target \in Namespaces
  BY DEF ServerOK, Crs
<1> QED BY <1>1, <1>2 DEF PutCr, ServerOK

LEMMA PutChildType ==
  ASSUME ServerOK, NEW n \in Namespaces, NEW data \in Data, PutChild(n, data),
         UNCHANGED <<cr, feed, left>>
  PROVE  ServerOK'
BY DEF PutChild, ServerOK

LEMMA DataIsNat == /\ Data \subseteq Nat /\ 0 \in Data /\ 0 .. MaxEdits \subseteq Data
                   /\ Drift \in Data /\ Blank \in Data /\ Blank # 0
BY SyncAssumption DEF Data, Drift, Blank

LEMMA ServeType ==
  ASSUME ServerOK, NEW call, NEW j \in Crs, NEW b \in Data, Serve(call, j, b)
  PROVE  ServerOK'
<1>1. j.target \in Namespaces /\ j.spec \in 0 .. MaxEdits
      /\ j.stamp \in Stamps \cup {NoStamp} /\ cr \in Crs
  BY DEF Crs, ServerOK
<1>2. CASE call = "AddFinalizer"
  <2>1. [cr EXCEPT !.finalizer = TRUE] \in Crs
    BY <1>1 DEF Crs
  <2> QED BY <1>2, <2>1, PutCrType DEF Serve, Reads
<1>3. CASE call = "RemoveFinalizer"
  <2>1. WithoutFinalizer \in Crs
    BY <1>1, NoCrType DEF Crs, WithoutFinalizer
  <2> QED BY <1>3, <2>1, PutCrType DEF Serve, Reads
<1>4. CASE call = "Label"
  <2>1. [cr EXCEPT !.label = j.target] \in Crs
    BY <1>1 DEF Crs
  <2> QED BY <1>4, <2>1, PutCrType DEF Serve, Reads
<1>5. CASE call = "Status"
  <2>1. PICK s \in StampsFor(j) : PutCr([cr EXCEPT !.synced = j.spec, !.stamp = s])
    BY <1>5 DEF Serve, Reads, patch_status
  <2>2. [cr EXCEPT !.synced = j.spec, !.stamp = s] \in Crs
    BY <1>1, <2>1 DEF Crs, StampsFor
  <2> QED BY <1>5, <2>1, <2>2, PutCrType DEF Serve, Reads
<1>6. CASE call = "Apply"
  <2>1. Desired(j, b) \in Data
    BY <1>1, DataIsNat DEF Desired
  <2> QED BY <1>1, <1>6, <2>1, PutChildType DEF Serve, Reads
<1>7. CASE call = "DeleteChild"
  BY <1>1, <1>7, DataIsNat, PutChildType DEF Serve, Reads
<1>8. CASE call \in Reads \cup {"Event", "Collect"}
  BY <1>8 DEF Serve, Reads, server, ServerOK
<1> QED BY <1>2, <1>3, <1>4, <1>5, <1>6, <1>7, <1>8 DEF Serve

LEMMA UsersType ==
  ASSUME TypeOK, Create \/ EditSpec \/ Retarget \/ Delete
  PROVE  TypeOK'
<1>1. /\ ServerOK /\ WorldOK /\ ReconcileOK /\ cr \in Crs
      /\ MaxEdits \in Nat /\ edits \in 0 .. MaxEdits
  BY TypeParts, SyncAssumption DEF ServerOK, WorldOK
<1>2. edits' \in 0 .. MaxEdits
  <2>1. \/ edits < MaxEdits /\ edits' = edits + 1
        \/ edits + 1 < MaxEdits /\ edits' = edits + 2
    BY DEF Create, EditSpec, Retarget, Delete, Edit
  <2> QED BY <1>1, <2>1
<1>3. UNCHANGED <<op, remote, token, child, news, cached, queued, at, job, body, late,
                  errors, dropped>>
  BY DEF Create, EditSpec, Retarget, Delete, idle, world
<1>4. \E new \in Crs : PutCr(new)
  <2>1. ASSUME NEW q \in Urls PROVE q \in BOOLEAN
    BY <2>1 DEF Urls
  <2>2. CASE Create
    <3>1. PICK q \in Urls :
            PutCr([NoCr EXCEPT !.exists = TRUE, !.spec = edits', !.permitted = q])
      BY <2>2 DEF Create
    <3>2. [NoCr EXCEPT !.exists = TRUE, !.spec = edits', !.permitted = q] \in Crs
      BY <1>2, <2>1, NoCrType DEF Crs
    <3> QED BY <3>1, <3>2
  <2>3. CASE EditSpec
    <3>1. PICK q \in Urls : PutCr([cr EXCEPT !.spec = edits', !.permitted = q])
      BY <2>3 DEF EditSpec
    <3>2. [cr EXCEPT !.spec = edits', !.permitted = q] \in Crs
      BY <1>1, <1>2, <2>1 DEF Crs
    <3> QED BY <3>1, <3>2
  <2>4. CASE Retarget
    <3>1. PICK n \in Targets : PutCr([cr EXCEPT !.spec = edits', !.target = n])
      BY <2>4 DEF Retarget
    <3>2. [cr EXCEPT !.spec = edits', !.target = n] \in Crs
      BY <1>1, <1>2, SyncAssumption DEF Crs
    <3> QED BY <3>1, <3>2
  <2>5. CASE Delete
    <3>1. (IF cr.finalizer THEN [cr EXCEPT !.deleting = TRUE] ELSE NoCr) \in Crs
      BY <1>1, NoCrType DEF Crs
    <3> QED BY <2>5, <3>1 DEF Delete
  <2> QED BY <2>2, <2>3, <2>4, <2>5
<1>5. ServerOK'
  BY <1>1, <1>3, <1>4, PutCrType
<1>6. WorldOK'
  BY <1>1, <1>2, <1>3 DEF WorldOK
<1>7. ReconcileOK'
  BY <1>1, <1>3 DEF ReconcileOK, Polls
<1> QED BY <1>5, <1>6, <1>7, TypeParts DEF TypeOK, ServerOK, ReconcileOK, WorldOK

\* A reconcile that has ended.
LEMMA AbortType ==
  ASSUME ReconcileOK, Abort, cached' \in Crs, UNCHANGED op PROVE ReconcileOK'
BY NoCrType, DataIsNat DEF ReconcileOK, Abort, Calls, Reads, Writes, Cleanup

LEMMA StepType ==
  ASSUME TypeOK, Begin \/ Proceed \/ Refused \/ Error \/ Drop
  PROVE  TypeOK'
<1>1. /\ ServerOK /\ WorldOK /\ ReconcileOK /\ job \in Crs /\ body \in Data
      /\ op \in Operators /\ cached \in Crs
  BY TypeParts DEF ReconcileOK, WorldOK
<1>2. CASE Begin
  <2>1. ServerOK' /\ WorldOK'
    BY <1>1, <1>2 DEF Begin, Started, world, server, bounds, ServerOK, WorldOK
  <2>2. /\ job' = cached /\ queued' = FALSE
        /\ UNCHANGED <<op, cached, body>>
    BY <1>2 DEF Begin, Started, world
  <2>3. CASE ~cached.exists
    <3>1. at' = "Idle"
      BY <1>2, <2>3 DEF Begin
    <3> QED BY <1>1, <2>1, <2>2, <2>3, <3>1, TypeParts
            DEF ReconcileOK, Calls, Reads, Writes, Cleanup, TypeOK, ServerOK, WorldOK
  <2>4. CASE cached.exists
    <3>1. PICK next \in {"DeleteChild", "AddFinalizer", CallsOf(op).sync[2]} :
            at' = next /\ (next = "DeleteChild" <=> cached.deleting)
      <4>1. CallsOf(op).sync[2] \in {"Apply", "Policy"}
        BY <1>1, SyncCalls DEF ConfigMapSync, ApiConfigSync
      <4> QED BY <1>2, <2>4, <4>1 DEF Begin
    <3>2. CallsOf(op).sync[2] = IF Polls(op) THEN "Policy" ELSE "Apply"
      BY <1>1, SyncCalls DEF ConfigMapSync, ApiConfigSync
    <3>3. ReconcileOK'
      BY <1>1, <2>2, <2>4, <3>1, <3>2
         DEF ReconcileOK, Calls, Reads, Writes, Cleanup, Polls
    <3> QED BY <2>1, <3>3 DEF ReconcileOK, TypeOK, ServerOK, WorldOK
  <2> QED BY <2>3, <2>4
<1>3. CASE Proceed
  <2>1. /\ at \in Calls /\ at' \in After(at, job) /\ (at \in Reads => Polls(op))
        /\ job' = (IF at' = "Idle" THEN NoCr ELSE job)
        /\ body' = (CASE at = "Poll" -> Answer [] at' = "Idle" -> 0 [] OTHER -> body)
        /\ UNCHANGED <<op, remote, token, cached, queued, late, edits, errors, dropped>>
        /\ Serve(at, job, body)
    BY <1>1, <1>3 DEF Proceed, ReconcileOK, world, bounds
  <2>2. ServerOK'
    BY <1>1, <2>1, ServeType
  <2>3. WorldOK'
    BY <1>1, <2>1 DEF WorldOK
  <2>4. /\ at' \in Calls \cup {"Idle"} /\ (at' \in Reads => Polls(op))
        /\ at' \in Cleanup => at = "DeleteChild" /\ at' = "RemoveFinalizer"
        /\ Polls(op) /\ at' = "Apply" => at = "Poll"
    BY <1>1, <2>1, NextCall
  <2>5. Answer \in Data /\ Answer # 0 /\ 0 \in Data
    BY <1>1, DataIsNat DEF Answer, WorldOK
  <2>6. body' \in Data /\ (Polls(op) /\ at' = "Apply" => body' # 0)
    <3>1. body' \in {Answer, 0, body}
      BY <2>1
    <3>2. at = "Poll" /\ at' = "Apply" => body' = Answer
      BY <2>1
    <3> QED BY <1>1, <2>4, <2>5, <3>1, <3>2
  <2>7. "Idle" \notin Calls /\ "DeleteChild" \in Cleanup /\ "Idle" \notin Cleanup
    BY DEF Calls, Reads, Writes, Cleanup
  <2>8. job' \in Crs /\ (at' = "Idle" <=> ~job'.exists) /\ (at' \in Cleanup => job'.deleting)
    BY <1>1, <2>1, <2>4, <2>7, NoCrType DEF ReconcileOK
  <2>9. ReconcileOK'
    BY <1>1, <2>1, <2>4, <2>6, <2>8 DEF ReconcileOK, Polls
  <2> QED BY <2>2, <2>3, <2>9 DEF TypeOK, ServerOK, ReconcileOK, WorldOK
<1>4. CASE Refused
  <2>1. ServerOK' /\ WorldOK' /\ UNCHANGED <<op, cached>>
    BY <1>1, <1>4 DEF Refused, world, server, bounds, ServerOK, WorldOK
  <2>2. ReconcileOK'
    BY <1>1, <1>4, <2>1, AbortType DEF Refused
  <2> QED BY <2>1, <2>2 DEF TypeOK, ServerOK, ReconcileOK, WorldOK
<1>5. CASE Error
  <2>1. UNCHANGED server \/ Serve(at, job, body)
    BY <1>5 DEF Error
  <2>2. ServerOK'
    BY <1>1, <2>1, ServeType DEF server, ServerOK
  <2>3. ReconcileOK'
    BY <1>1, <1>5, AbortType DEF Error, world
  <2>4. WorldOK'
    <3>1. /\ errors < MaxErrors /\ errors + dropped < MaxFaults /\ errors' = errors + 1
          /\ UNCHANGED <<op, remote, token, late, edits, dropped>>
      BY <1>5 DEF Error, world
    <3> QED BY <1>1, <3>1, SyncAssumption DEF WorldOK
  <2> QED BY <2>2, <2>3, <2>4 DEF TypeOK, ServerOK, ReconcileOK, WorldOK
<1>6. CASE Drop
  <2>1. \/ UNCHANGED <<cached, feed>>
        \/ cached' = cr /\ feed' = <<>>
    BY <1>6 DEF Drop
  <2>2. ServerOK' /\ cached' \in Crs
    <3> DEFINE none == <<>>
    <3>0. none \in Seq(Crs)
      OBVIOUS
    <3>1. feed' \in Seq(Crs) /\ cached' \in Crs
      BY <1>1, <2>1, <3>0 DEF ServerOK
    <3>2. UNCHANGED <<cr, child, news, left>>
      BY <1>6 DEF Drop
    <3> QED BY <1>1, <3>1, <3>2 DEF ServerOK
  <2>3. ReconcileOK'
    BY <1>1, <1>6, <2>2, AbortType DEF Drop, world
  <2>4. WorldOK'
    <3>1. /\ dropped < MaxDropped /\ errors + dropped < MaxFaults
          /\ dropped' = dropped + 1 /\ UNCHANGED <<op, remote, token, edits, errors>>
      BY <1>6 DEF Drop, world
    <3>2. late' \subseteq [call : Writes, job : Crs, body : Data]
      BY <1>1, <1>6 DEF Drop, WorldOK
    <3> QED BY <1>1, <3>1, <3>2, SyncAssumption DEF WorldOK
  <2> QED BY <2>2, <2>3, <2>4 DEF TypeOK, ServerOK, ReconcileOK, WorldOK
<1> QED BY <1>2, <1>3, <1>4, <1>5, <1>6

LEMMA OthersType ==
  ASSUME TypeOK,
         Tamper \/ Publish \/ ToggleToken \/ Deliver \/ DeliverNews \/ Requeue \/ Land
  PROVE  TypeOK'
<1>1. ServerOK /\ WorldOK /\ ReconcileOK
  BY TypeParts
<1> SUFFICES ServerOK' /\ WorldOK' /\ ReconcileOK'
  BY DEF TypeOK, ServerOK, ReconcileOK, WorldOK
<1>2. ASSUME Edit PROVE edits' \in 0 .. MaxEdits
  BY <1>1, <1>2, SyncAssumption DEF Edit, WorldOK
<1>3. CASE Tamper
  <2>1. PICK n \in Namespaces, data \in {0, Drift} : PutChild(n, data)
    BY <1>3 DEF Tamper
  <2>2. /\ Edit
        /\ UNCHANGED <<op, remote, token, cr, feed, left, cached, queued, at, job, body,
                       late, errors, dropped>>
    BY <1>3 DEF Tamper, idle, world
  <2>3. ServerOK'
    BY <1>1, <2>1, <2>2, DataIsNat, PutChildType
  <2> QED BY <1>1, <1>2, <2>2, <2>3 DEF WorldOK, ReconcileOK, Polls
<1>4. CASE Publish \/ ToggleToken
  <2>1. /\ Edit /\ remote' \in {remote, 0, edits'} /\ token' \in BOOLEAN
        /\ UNCHANGED <<op, cr, child, feed, news, left, cached, queued, at, job, body,
                       late, errors, dropped>>
    BY <1>1, <1>4 DEF Publish, ToggleToken, idle, server, WorldOK
  <2>2. edits' \in 0 .. MaxEdits /\ remote' \in 0 .. MaxEdits
    BY <1>1, <1>2, <2>1, SyncAssumption DEF WorldOK
  <2> QED BY <1>1, <2>1, <2>2 DEF ServerOK, WorldOK, ReconcileOK, Polls
<1>5. CASE Deliver
  <2>1. /\ feed # <<>> /\ cached' = Head(feed) /\ feed' = Tail(feed)
        /\ queued' = (queued \/ Head(feed).exists)
        /\ UNCHANGED <<op, remote, token, cr, child, news, left, at, job, body, late,
                       edits, errors, dropped>>
    BY <1>5 DEF Deliver, world, bounds
  <2>2. Head(feed) \in Crs /\ Tail(feed) \in Seq(Crs)
    BY <1>1, <2>1 DEF ServerOK
  <2> QED BY <1>1, <2>1, <2>2 DEF ServerOK, WorldOK, ReconcileOK, Polls
<1>6. CASE DeliverNews \/ Requeue
  <2>1. /\ news' \in BOOLEAN /\ queued' \in BOOLEAN
        /\ UNCHANGED <<op, remote, token, cr, child, feed, left, cached, at, job, body,
                       late, edits, errors, dropped>>
    BY <1>1, <1>6
       DEF DeliverNews, Requeue, world, bounds, server, ServerOK, ReconcileOK, WatchesChild
  <2> QED BY <1>1, <2>1 DEF ServerOK, WorldOK, ReconcileOK, Polls
<1>7. CASE Land
  <2>1. PICK e \in late : /\ late' = late \ {e}
                          /\ UNCHANGED server \/ Serve(e.call, e.job, e.body)
    BY <1>7 DEF Land
  <2>2. e.job \in Crs /\ e.body \in Data
    BY <1>1 DEF WorldOK
  <2>3. ServerOK'
    BY <1>1, <2>1, <2>2, ServeType DEF server, ServerOK
  <2>4. UNCHANGED <<op, remote, token, cached, queued, at, job, body, edits, errors, dropped>>
    BY <1>7 DEF Land, world, bounds
  <2> QED BY <1>1, <2>1, <2>3, <2>4 DEF WorldOK, ReconcileOK, Polls
<1> QED BY <1>3, <1>4, <1>5, <1>6, <1>7

LEMMA TypeInit == Init => TypeOK
<1> SUFFICES ASSUME Init PROVE TypeOK
  OBVIOUS
<1> DEFINE none == <<>>
<1>1. none \in Seq(Crs)
  OBVIOUS
<1>2. ServerOK
  BY <1>1, NoCrType, DataIsNat DEF Init, ServerOK
<1>3. ReconcileOK
  BY NoCrType, DataIsNat DEF Init, ReconcileOK, Calls, Reads, Writes, Cleanup
<1>4. WorldOK
  BY SyncAssumption DEF Init, WorldOK
<1> QED BY <1>2, <1>3, <1>4, TypeParts

LEMMA TypeStep == TypeOK /\ [Next]_vars => TypeOK'
<1> SUFFICES ASSUME TypeOK, [Next]_vars PROVE TypeOK'
  OBVIOUS
<1>1. CASE UNCHANGED vars
  BY <1>1 DEF vars, world, server, bounds, TypeOK, Polls
<1> QED BY <1>1, UsersType, StepType, OthersType DEF Next

\* Every variable has its type: an operator that polls never applies what it has
\* not polled, and a reconcile that cleans up works on a copy that is being
\* deleted.
THEOREM TypeCorrect == Spec => []TypeOK
BY TypeInit, TypeStep, PTL DEF Spec

-----------------------------------------------------------------------------
(***************************************************************************)
(* The versions of the resource that somebody still acts upon, from the    *)
(* oldest: the copy of the reconcile, the cached one, those on their way.  *)
(* The last is the resource itself.                                        *)
(***************************************************************************)
Latest == Len(feed) + 1

Copy == IF at = "Idle" THEN cached ELSE job

Version(i) == CASE i = 0 -> Copy [] i = 1 -> cached [] OTHER -> feed[i - 1]

Versions == [i \in 0 .. Latest |-> Version(i)]

\* What a version says of the finalizer.
Fresh(v) == v.exists /\ ~v.finalizer /\ ~v.deleting
Held(v)  == v.finalizer /\ ~v.deleting

\* The order of the versions s[0] .. s[n], the last of them now: a finalizer
\* that some version shows is there until a copy that is being deleted has been
\* seen, and a target stays or is known as left.
HeldNow(s, n, now) == \A i \in 0 .. n : Held(s[i]) => now.finalizer

HeldBeforeDeleting(s, n) ==
  \A i, j \in 0 .. n : i <= j /\ s[i].deleting => ~Held(s[j])

OneDeletion(s, n) ==
  \A i, j, k \in 0 .. n :
    i <= j /\ j <= k /\ s[i].deleting /\ Fresh(s[j]) => ~s[k].deleting

FreshBeforeDeleting(s, n, now) ==
  \A i, j \in 0 .. n : i <= j /\ Fresh(s[i]) /\ s[j].deleting => now.finalizer

TargetsLeft(s, n, gone) ==
  \A i, j \in 0 .. n : i <= j => s[i].target \in gone \/ s[j].target = s[i].target

InOrder(s, n, now, gone) ==
  /\ HeldNow(s, n, now)
  /\ HeldBeforeDeleting(s, n)
  /\ OneDeletion(s, n)
  /\ FreshBeforeDeleting(s, n, now)
  /\ TargetsLeft(s, n, gone)

LatestIsNow == Versions[Latest] = cr

\* The call the reconcile has come to.
StageOK ==
  /\ cr.finalizer => cr.exists
  /\ ~cr.exists => cr = NoCr
  /\ at = "AddFinalizer" => Fresh(job)
  /\ at \in Calls \ (Cleanup \cup {"AddFinalizer"}) => cr.finalizer
  /\ at = "RemoveFinalizer" => child[job.target] = 0

\* Where there is a child, and who will delete it.
ChildrenOK ==
  \A n \in Namespaces \ left :
    child[n] # 0 =>
      /\ cr.finalizer /\ cr.target = n
      /\ \A i \in 0 .. Latest : Versions[i].deleting => Versions[i].target = n

Guard ==
  /\ late = {}
  /\ LatestIsNow /\ InOrder(Versions, Latest, cr, left)
  /\ StageOK /\ ChildrenOK

GuardInv == TypeOK /\ (dropped = 0 => Guard)

-----------------------------------------------------------------------------
(***************************************************************************)
(* Two facts about ordered versions: leaving some out keeps the order, and *)
(* when a new one may follow.                                              *)
(***************************************************************************)
LEMMA Thinned ==
  ASSUME NEW s, NEW n \in Nat, NEW now, NEW gone, InOrder(s, n, now, gone),
         NEW r, NEW m \in Nat, NEW f \in [0 .. m -> 0 .. n],
         \A i, j \in 0 .. m : i <= j => f[i] <= f[j],
         \A i \in 0 .. m : r[i] = s[f[i]]
  PROVE  InOrder(r, m, now, gone)
<1>1. HeldNow(r, m, now)
  BY DEF InOrder, HeldNow
<1>2. HeldBeforeDeleting(r, m)
  BY DEF InOrder, HeldBeforeDeleting
<1>3. OneDeletion(r, m)
  <2> SUFFICES ASSUME NEW i \in 0 .. m, NEW j \in 0 .. m, NEW k \in 0 .. m,
                      i <= j, j <= k, r[i].deleting, Fresh(r[j])
               PROVE  ~r[k].deleting
    BY DEF OneDeletion
  <2>1. /\ f[i] \in 0 .. n /\ f[j] \in 0 .. n /\ f[k] \in 0 .. n
        /\ f[i] <= f[j] /\ f[j] <= f[k]
    OBVIOUS
  <2>2. s[f[i]].deleting /\ Fresh(s[f[j]]) /\ r[k] = s[f[k]]
    OBVIOUS
  <2> QED BY <2>1, <2>2 DEF InOrder, OneDeletion
<1>4. FreshBeforeDeleting(r, m, now)
  BY DEF InOrder, FreshBeforeDeleting
<1>5. TargetsLeft(r, m, gone)
  BY DEF InOrder, TargetsLeft
<1> QED BY <1>1, <1>2, <1>3, <1>4, <1>5 DEF InOrder

Longer(s, n, new) == [i \in 0 .. n + 1 |-> IF i <= n THEN s[i] ELSE new]

LEMMA Extended ==
  ASSUME NEW s, NEW n \in Nat, NEW now, NEW gone, InOrder(s, n, now, gone),
         s[n] = now, NEW new, NEW gone2, gone \subseteq gone2,
         new.target = now.target \/ now.target \in gone2,
         \A i \in 0 .. n : Held(s[i]) => new.finalizer,
         Held(new) => \A i \in 0 .. n : ~s[i].deleting,
         new.deleting => \A i, j \in 0 .. n : i <= j /\ s[i].deleting => ~Fresh(s[j]),
         \A i, j \in 0 .. n :
           i <= j /\ Fresh(s[i]) /\ (s[j].deleting \/ new.deleting) => new.finalizer
  PROVE  InOrder(Longer(s, n, new), n + 1, new, gone2)
<1> DEFINE l == Longer(s, n, new)
<1>1. /\ l[n + 1] = new
      /\ \A i \in 0 .. n : l[i] = s[i]
      /\ \A i \in 0 .. n + 1 : i \in 0 .. n \/ i = n + 1
  BY DEF Longer
<1> HIDE DEF l
<1>2. HeldNow(l, n + 1, new)
  BY <1>1 DEF HeldNow, Held
<1>3. HeldBeforeDeleting(l, n + 1)
  BY <1>1 DEF InOrder, HeldBeforeDeleting, Held
<1>4. OneDeletion(l, n + 1)
  BY <1>1 DEF InOrder, OneDeletion, Fresh
<1>5. FreshBeforeDeleting(l, n + 1, new)
  BY <1>1 DEF FreshBeforeDeleting, Fresh
<1>6. TargetsLeft(l, n + 1, gone2)
  <2> SUFFICES ASSUME NEW i \in 0 .. n, l[i].target \notin gone2
               PROVE  l[n + 1].target = l[i].target
    BY <1>1 DEF InOrder, TargetsLeft
  <2>1. now.target = l[i].target
    BY <1>1 DEF InOrder, TargetsLeft
  <2> QED BY <1>1, <2>1
<1> QED BY <1>2, <1>3, <1>4, <1>5, <1>6 DEF InOrder, l

-----------------------------------------------------------------------------
(***************************************************************************)
(* A step keeps the order.                                                 *)
(***************************************************************************)
LEMMA VersionFacts ==
  ASSUME TypeOK
  PROVE  /\ Latest \in Nat /\ Latest >= 1 /\ Latest = Len(feed) + 1
         /\ Versions[0] = Copy /\ Versions[1] = cached
         /\ \A i \in 2 .. Latest : Versions[i] = feed[i - 1]
BY DEF TypeOK, Latest, Versions, Version

\* How the resource may change.
Move(new) ==
  \/ new.finalizer = cr.finalizer /\ new.deleting = cr.deleting /\ new.exists = cr.exists
  \/ ~cr.finalizer /\ ~new.finalizer /\ ~new.deleting
  \/ Held(cr) /\ new.finalizer /\ new.deleting
  \/ at = "AddFinalizer" /\ Fresh(cr) /\ Held(new)
  \/ at = "RemoveFinalizer" /\ ~new.finalizer /\ ~new.deleting

LEMMA MoveInOrder ==
  ASSUME TypeOK, Guard, NEW new, Move(new), NEW gone, left \subseteq gone,
         new.target = cr.target \/ cr.target \in gone
  PROVE  InOrder(Longer(Versions, Latest, new), Latest + 1, new, gone)
<1> DEFINE s == Versions
           n == Latest
<1>1. /\ n \in Nat /\ n \in 0 .. n /\ 0 \in 0 .. n /\ s[n] = cr /\ s[0] = Copy
      /\ \A i \in 0 .. n : 0 <= i /\ i <= n
  BY VersionFacts DEF Guard, LatestIsNow
<1>2. /\ HeldNow(s, n, cr) /\ HeldBeforeDeleting(s, n) /\ OneDeletion(s, n)
      /\ FreshBeforeDeleting(s, n, cr) /\ InOrder(s, n, cr, left)
  BY DEF Guard, InOrder
<1> HIDE DEF s, n
<1> DEFINE Goal ==
      /\ \A i \in 0 .. n : Held(s[i]) => new.finalizer
      /\ Held(new) => \A i \in 0 .. n : ~s[i].deleting
      /\ new.deleting => \A i, j \in 0 .. n : i <= j /\ s[i].deleting => ~Fresh(s[j])
      /\ \A i, j \in 0 .. n :
           i <= j /\ Fresh(s[i]) /\ (s[j].deleting \/ new.deleting) => new.finalizer
<1> SUFFICES Goal
  <2>1. InOrder(Longer(s, n, new), n + 1, new, gone)
    BY <1>1, <1>2, Extended
  <2> QED BY <2>1 DEF s, n
<1>3. CASE /\ new.finalizer = cr.finalizer /\ new.deleting = cr.deleting
           /\ new.exists = cr.exists
  <2>1. \A i \in 0 .. n : Held(s[i]) => new.finalizer
    BY <1>2, <1>3 DEF HeldNow
  <2>2. Held(new) => \A i \in 0 .. n : ~s[i].deleting
    BY <1>1, <1>2, <1>3 DEF HeldBeforeDeleting, Held
  <2>3. new.deleting => \A i, j \in 0 .. n : i <= j /\ s[i].deleting => ~Fresh(s[j])
    BY <1>1, <1>2, <1>3 DEF OneDeletion
  <2>4. \A i, j \in 0 .. n :
          i <= j /\ Fresh(s[i]) /\ (s[j].deleting \/ new.deleting) => new.finalizer
    BY <1>1, <1>2, <1>3 DEF FreshBeforeDeleting
  <2> QED BY <2>1, <2>2, <2>3, <2>4
<1>4. CASE ~cr.finalizer /\ ~new.finalizer /\ ~new.deleting
  BY <1>1, <1>2, <1>4 DEF HeldNow, FreshBeforeDeleting, Held
<1>5. CASE Held(cr) /\ new.finalizer /\ new.deleting
  BY <1>1, <1>2, <1>5 DEF HeldBeforeDeleting, Held
<1>6. CASE at = "AddFinalizer" /\ Fresh(cr) /\ Held(new)
  <2>1. Fresh(s[0])
    BY <1>1, <1>6 DEF Guard, StageOK, Copy
  <2>2. \A i \in 0 .. n : ~s[i].deleting
    BY <1>1, <1>2, <1>6, <2>1 DEF FreshBeforeDeleting, Fresh
  <2> QED BY <1>6, <2>2 DEF Held
<1>7. CASE at = "RemoveFinalizer" /\ ~new.finalizer /\ ~new.deleting
  <2>1. s[0].deleting
    BY <1>1, <1>7 DEF TypeOK, Cleanup, Copy
  <2>2. \A i \in 0 .. n : ~Held(s[i])
    BY <1>1, <1>2, <2>1 DEF HeldBeforeDeleting
  <2>3. \A i, j \in 0 .. n : i <= j /\ Fresh(s[i]) => ~s[j].deleting
    BY <1>1, <1>2, <2>1 DEF OneDeletion
  <2> QED BY <1>7, <2>2, <2>3 DEF Held
<1> QED BY <1>3, <1>4, <1>5, <1>6, <1>7 DEF Move

\* The versions after a step, as a selection from those before it and the new one.
OrderKept ==
  /\ LatestIsNow' /\ InOrder(Versions, Latest, cr, left)'
  /\ \A i \in 0 .. Latest' :
       Versions'[i] = cr' \/ (\E k \in 0 .. Latest : Versions'[i] = Versions[k])

LEMMA WriteKeepsOrder ==
  ASSUME TypeOK, TypeOK', Guard, cached' = cached, Copy' \in {Copy, cached},
         feed' = Append(feed, cr') \/ (feed' = feed /\ cr' = cr),
         Move(cr'), left \subseteq left', cr'.target = cr.target \/ cr.target \in left'
  PROVE  OrderKept
<1> DEFINE s == Versions
           n == Latest
           l == Longer(Versions, Latest, cr')
           r == Versions'
           m == Latest'
           f == [i \in 0 .. m |-> IF i = 0 /\ Copy' = cached THEN 1 ELSE i]
<1>1. /\ n \in Nat /\ n >= 1 /\ n = Len(feed) + 1 /\ s[n] = cr
      /\ s[0] = Copy /\ s[1] = cached /\ \A i \in 2 .. n : s[i] = feed[i - 1]
  BY VersionFacts DEF Guard, LatestIsNow
<1>2. /\ m \in Nat /\ m >= 1 /\ m = Len(feed') + 1
      /\ r[0] = Copy' /\ r[1] = cached /\ \A i \in 2 .. m : r[i] = feed'[i - 1]
  <2>1. m \in Nat /\ m >= 1 /\ m = Len(feed') + 1
    BY DEF TypeOK, Latest
  <2>2. r = [i \in 0 .. m |-> CASE i = 0 -> Copy' [] i = 1 -> cached [] OTHER -> feed'[i - 1]]
    BY DEF Versions, Version
  <2> HIDE DEF r, m
  <2> QED BY <2>1, <2>2
<1>3. /\ l[n + 1] = cr' /\ \A i \in 0 .. n : l[i] = s[i]
  BY <1>1 DEF Longer
<1>4. feed \in Seq(Crs) /\ feed' \in Seq(Crs) /\ Len(feed) \in Nat
  BY DEF TypeOK
<1> HIDE DEF s, n, l, r, m, f
<1>5. /\ m = n \/ m = n + 1
      /\ \A i \in 1 .. m : r[i] = l[i]
  <2>1. CASE feed' = feed
    BY <1>1, <1>2, <1>3, <1>4, <2>1
  <2>2. CASE feed' = Append(feed, cr')
    <3>1. /\ m = n + 1 /\ feed'[n] = cr'
          /\ \A i \in 1 .. Len(feed) : feed'[i] = feed[i]
      BY <1>1, <1>2, <1>4, <2>2
    <3>2. ASSUME NEW i \in 2 .. n PROVE r[i] = l[i]
      <4>1. /\ i - 1 \in 1 .. Len(feed) /\ i \in 2 .. m /\ i \in 0 .. n
            /\ feed'[i - 1] = feed[i - 1]
        BY <1>1, <1>2, <1>4, <3>1
      <4> QED BY <1>1, <1>2, <1>3, <4>1
    <3>3. r[n + 1] = l[n + 1]
      BY <1>1, <1>2, <1>3, <3>1
    <3> QED BY <1>1, <1>2, <1>3, <3>1, <3>2, <3>3
  <2> QED BY <2>1, <2>2
<1>6. r[0] \in {l[0], l[1]} /\ (Copy' = cached => r[0] = l[1])
                          /\ (Copy' # cached => r[0] = l[0])
  BY <1>1, <1>2, <1>3
<1>7. /\ f \in [0 .. m -> 0 .. n + 1]
      /\ \A i, j \in 0 .. m : i <= j => f[i] <= f[j]
      /\ \A i \in 0 .. m : r[i] = l[f[i]]
  <2>1. f \in [0 .. m -> 0 .. n + 1]
    BY <1>1, <1>2, <1>5 DEF f
  <2>2. \A i, j \in 0 .. m : i <= j => f[i] <= f[j]
    BY <1>1, <1>2 DEF f
  <2>3. \A i \in 0 .. m : r[i] = l[f[i]]
    BY <1>2, <1>5, <1>6 DEF f
  <2> QED BY <2>1, <2>2, <2>3
<1>8. InOrder(l, n + 1, cr', left')
  BY MoveInOrder DEF l, n
<1>9. InOrder(r, m, cr', left')
  <2> DEFINE p == n + 1
  <2>1. p \in Nat /\ m \in Nat /\ f \in [0 .. m -> 0 .. p] /\ InOrder(l, p, cr', left')
    BY <1>1, <1>2, <1>7, <1>8
  <2> HIDE DEF p
  <2> QED BY <1>7, <2>1, Thinned, Zenon
<1>10. r[m] = cr'
  BY <1>1, <1>2, <1>3, <1>4, <1>5
<1>11. ASSUME NEW i \in 0 .. m PROVE r[i] = cr' \/ (\E k \in 0 .. n : r[i] = s[k])
  <2>1. f[i] \in 0 .. n + 1 /\ r[i] = l[f[i]]
    BY <1>7
  <2>2. f[i] \in 0 .. n \/ f[i] = n + 1
    BY <1>1, <2>1
  <2> QED BY <1>3, <2>1, <2>2
<1> QED BY <1>9, <1>10, <1>11 DEF OrderKept, LatestIsNow, r, m, s, n

LEMMA DeliverKeepsOrder ==
  ASSUME TypeOK, TypeOK', Guard, Deliver PROVE OrderKept
<1> DEFINE s == Versions
           n == Latest
           r == Versions'
           m == Latest'
           f == [i \in 0 .. m |-> IF i # 0 THEN i + 1 ELSE IF at = "Idle" THEN 2 ELSE 0]
<1>1. /\ n \in Nat /\ n = Len(feed) + 1 /\ s[n] = cr
      /\ s[0] = Copy /\ s[1] = cached /\ \A i \in 2 .. n : s[i] = feed[i - 1]
      /\ InOrder(s, n, cr, left)
  BY VersionFacts DEF Guard, LatestIsNow
<1>2. /\ m \in Nat /\ m = Len(feed') + 1
      /\ r[0] = Copy' /\ r[1] = cached' /\ \A i \in 2 .. m : r[i] = feed'[i - 1]
  <2>1. feed' \in Seq(Crs) /\ Len(feed') \in Nat
    BY DEF TypeOK
  <2> QED BY <2>1 DEF Latest, Versions, Version
<1>3. /\ feed \in Seq(Crs) /\ feed # <<>> /\ feed' = Tail(feed) /\ cached' = Head(feed)
      /\ UNCHANGED <<at, job, cr, left>>
  BY DEF TypeOK, Deliver
<1> HIDE DEF s, n, r, m, f
<1>4. /\ Len(feed) \in Nat /\ Len(feed) >= 1 /\ Len(feed') = Len(feed) - 1
      /\ Head(feed) = feed[1]
      /\ \A i \in 1 .. Len(feed') : feed'[i] = feed[i + 1]
  BY <1>3
<1>5. n >= 2 /\ m = n - 1 /\ m >= 1
  BY <1>1, <1>2, <1>4
<1>6. ASSUME NEW i \in 1 .. m PROVE r[i] = s[i + 1]
  <2>1. i + 1 \in 2 .. n /\ s[i + 1] = feed[i]
    BY <1>1, <1>5
  <2>2. CASE i = 1
    BY <1>2, <1>3, <1>4, <2>1, <2>2
  <2>3. CASE i \in 2 .. m
    <3>1. i - 1 \in 1 .. Len(feed') /\ (i - 1) + 1 = i
      BY <1>2, <2>3
    <3> QED BY <1>2, <1>4, <2>1, <2>3, <3>1
  <2> QED BY <2>2, <2>3
<1>7. r[0] = IF at = "Idle" THEN s[2] ELSE s[0]
  <2>1. s[2] = feed[1]
    BY <1>1, <1>5
  <2> QED BY <1>1, <1>2, <1>3, <1>4, <2>1 DEF Copy
<1>8. /\ f \in [0 .. m -> 0 .. n]
      /\ \A i, j \in 0 .. m : i <= j => f[i] <= f[j]
      /\ \A i \in 0 .. m : r[i] = s[f[i]]
  <2>1. f \in [0 .. m -> 0 .. n]
    BY <1>1, <1>2, <1>5 DEF f
  <2>2. \A i, j \in 0 .. m : i <= j => f[i] <= f[j]
    BY <1>2, <1>5 DEF f
  <2>3. \A i \in 0 .. m : r[i] = s[f[i]]
    BY <1>2, <1>6, <1>7 DEF f
  <2> QED BY <2>1, <2>2, <2>3
<1>9. InOrder(r, m, cr, left)
  <2>1. n \in Nat /\ m \in Nat /\ f \in [0 .. m -> 0 .. n] /\ InOrder(s, n, cr, left)
    BY <1>1, <1>2, <1>8
  <2> QED BY <1>8, <2>1, Thinned, Zenon
<1>10. r[m] = cr
  BY <1>1, <1>2, <1>5, <1>6
<1>11. \A i \in 0 .. m : \E k \in 0 .. n : r[i] = s[k]
  BY <1>8
<1>12. cr' = cr /\ left' = left
  BY <1>3
<1> QED BY <1>9, <1>10, <1>11, <1>12 DEF OrderKept, LatestIsNow, r, m, s, n

\* What a step may do to the resource.
Written ==
  /\ Move(cr')
  /\ feed' = Append(feed, cr') \/ (feed' = feed /\ cr' = cr)
  /\ left \subseteq left' /\ (cr'.target = cr.target \/ cr.target \in left')
  /\ cr'.finalizer => cr'.exists
  /\ ~cr'.exists => cr' = NoCr

LEMMA PutCrWrites ==
  ASSUME NEW new, PutCr(new), Move(new), new.finalizer => new.exists,
         ~new.exists => new = NoCr
  PROVE  Written
BY DEF PutCr, Written

LEMMA NothingWritten ==
  ASSUME Guard, UNCHANGED <<cr, feed, left>> PROVE Written
BY DEF Guard, StageOK, Written, Move

LEMMA UsersWrite ==
  ASSUME TypeOK, Guard, Create \/ EditSpec \/ Retarget \/ Delete
  PROVE  Written /\ (cr.finalizer => cr'.finalizer)
<1>1. cr \in Crs /\ (cr.finalizer => cr.exists) /\ (~cr.exists => cr = NoCr)
  BY DEF TypeOK, Guard, StageOK
<1>2. CASE Create
  <2>1. PICK q \in Urls :
          PutCr([NoCr EXCEPT !.exists = TRUE, !.spec = edits', !.permitted = q])
    BY <1>2 DEF Create
  <2> DEFINE new == [NoCr EXCEPT !.exists = TRUE, !.spec = edits', !.permitted = q]
  <2>2. new.exists /\ ~new.finalizer /\ ~new.deleting /\ cr' = new /\ ~cr.exists
    BY <1>2, <2>1 DEF NoCr, PutCr, Create
  <2> HIDE DEF new
  <2>3. Move(new)
    BY <1>1, <2>2 DEF Move
  <2> QED BY <1>1, <2>1, <2>2, <2>3, PutCrWrites DEF new
<1>3. CASE EditSpec
  <2>1. PICK q \in Urls : PutCr([cr EXCEPT !.spec = edits', !.permitted = q])
    BY <1>3 DEF EditSpec
  <2> DEFINE new == [cr EXCEPT !.spec = edits', !.permitted = q]
  <2>2. /\ new.exists = cr.exists /\ new.finalizer = cr.finalizer
        /\ new.deleting = cr.deleting /\ cr' = new /\ cr.exists
    BY <1>1, <1>3, <2>1 DEF Crs, PutCr, EditSpec
  <2> HIDE DEF new
  <2> QED BY <1>1, <2>1, <2>2, PutCrWrites DEF new, Move
<1>4. CASE Retarget
  <2>1. PICK q \in Targets : PutCr([cr EXCEPT !.spec = edits', !.target = q])
    BY <1>4 DEF Retarget
  <2> DEFINE new == [cr EXCEPT !.spec = edits', !.target = q]
  <2>2. /\ new.exists = cr.exists /\ new.finalizer = cr.finalizer
        /\ new.deleting = cr.deleting /\ cr' = new /\ cr.exists
    BY <1>1, <1>4, <2>1 DEF Crs, PutCr, Retarget
  <2> HIDE DEF new
  <2> QED BY <1>1, <2>1, <2>2, PutCrWrites DEF new, Move
<1>5. CASE Delete /\ cr.finalizer
  <2> DEFINE new == [cr EXCEPT !.deleting = TRUE]
  <2>1. PutCr(new) /\ ~cr.deleting
    BY <1>5 DEF Delete
  <2>2. new.exists = cr.exists /\ new.finalizer = cr.finalizer /\ new.deleting /\ cr' = new
    BY <1>1, <2>1 DEF Crs, PutCr
  <2> HIDE DEF new
  <2> QED BY <1>1, <1>5, <2>1, <2>2, PutCrWrites DEF Move, Held
<1>6. CASE Delete /\ ~cr.finalizer
  BY <1>6, NoCrType, PutCrWrites DEF Delete, Move
<1> QED BY <1>2, <1>3, <1>4, <1>5, <1>6

\* A call of the reconcile that the server serves.
LEMMA ServeWrites ==
  ASSUME TypeOK, Guard, at # "Idle", Allowed(at, job), Serve(at, job, body)
  PROVE  /\ Written
         /\ at = "AddFinalizer" \/ (cr.finalizer /\ at # "RemoveFinalizer") => cr'.finalizer
         /\ at \notin {"Apply", "DeleteChild"} => child' = child
         /\ at \in {"Apply", "DeleteChild"} => UNCHANGED <<cr, left>>
         /\ at = "Apply" => \A n \in Namespaces \ {job.target} : child'[n] = child[n]
         /\ at = "DeleteChild" =>
              \A n \in Namespaces : child'[n] = IF n = job.target THEN 0 ELSE child[n]
<1>1. cr \in Crs /\ (cr.finalizer => cr.exists) /\ (~cr.exists => cr = NoCr)
  BY DEF TypeOK, Guard, StageOK
<1>2. child \in [Namespaces -> Data]
  BY DEF TypeOK
<1>3. CASE at = "AddFinalizer"
  <2> DEFINE new == [cr EXCEPT !.finalizer = TRUE]
  <2>1. PutCr(new) /\ child' = child /\ Fresh(cr)
    BY <1>3 DEF Serve, Reads, Allowed, Fresh
  <2>2. new.exists = cr.exists /\ new.finalizer /\ new.deleting = cr.deleting /\ cr' = new
    BY <1>1, <2>1 DEF Crs, PutCr
  <2> HIDE DEF new
  <2>3. Move(new)
    BY <1>3, <2>1, <2>2 DEF Move, Held, Fresh
  <2> QED BY <1>3, <2>1, <2>2, <2>3, PutCrWrites DEF Fresh
<1>4. CASE at = "RemoveFinalizer"
  <2> DEFINE new == WithoutFinalizer
  <2>1. PutCr(new) /\ child' = child /\ cr.finalizer
    BY <1>4 DEF Serve, Reads, Allowed
  <2>2. /\ ~new.finalizer /\ ~new.deleting
        /\ ~new.exists => new = NoCr
    BY <1>1, <2>1, NoCrType DEF Crs, WithoutFinalizer
  <2> HIDE DEF new
  <2> QED BY <1>4, <2>1, <2>2, PutCrWrites DEF Move
<1>5. CASE at = "Label"
  <2> DEFINE new == [cr EXCEPT !.label = job.target]
  <2>1. PutCr(new) /\ child' = child /\ cr.exists
    BY <1>5 DEF Serve, Reads, Allowed
  <2>2. /\ new.exists = cr.exists /\ new.finalizer = cr.finalizer
        /\ new.deleting = cr.deleting /\ cr' = new
    BY <1>1, <2>1 DEF Crs, PutCr
  <2> HIDE DEF new
  <2> QED BY <1>1, <1>5, <2>1, <2>2, PutCrWrites DEF Move
<1>6. CASE at = "Status"
  <2>1. PICK t \in StampsFor(job) : PutCr([cr EXCEPT !.synced = job.spec, !.stamp = t])
    BY <1>6 DEF Serve, Reads, patch_status
  <2> DEFINE new == [cr EXCEPT !.synced = job.spec, !.stamp = t]
  <2>2. child' = child /\ cr.exists
    BY <1>6 DEF Serve, Reads, Allowed
  <2>3. /\ new.exists = cr.exists /\ new.finalizer = cr.finalizer
        /\ new.deleting = cr.deleting /\ cr' = new
    BY <1>1, <2>1 DEF Crs, PutCr
  <2> HIDE DEF new
  <2> QED BY <1>1, <1>6, <2>1, <2>2, <2>3, PutCrWrites DEF Move, new
<1>7. CASE at \in {"Apply", "DeleteChild"}
  <2>1. UNCHANGED <<cr, feed, left>>
    BY <1>7 DEF Serve, Reads
  <2>2. at = "Apply" => PutChild(job.target, Desired(job, body))
    BY DEF Serve, Reads
  <2>3. at = "DeleteChild" => PutChild(job.target, 0)
    BY DEF Serve, Reads
  <2> QED BY <1>2, <1>7, <2>1, <2>2, <2>3, NothingWritten DEF PutChild
<1>8. CASE at \in Reads \cup {"Event", "Collect"}
  <2>1. UNCHANGED <<cr, feed, left, child>>
    BY <1>8 DEF Serve, Reads, server
  <2> QED BY <1>8, <2>1, NothingWritten DEF Reads
<1> QED BY <1>3, <1>4, <1>5, <1>6, <1>7, <1>8 DEF Serve

\* A child that is not orphaned by the step.
ChildIsHeld(n) ==
  /\ cr'.finalizer /\ cr'.target = n
  /\ \A i \in 0 .. Latest : Versions[i].deleting => Versions[i].target = n

\* What is left to show of a step that keeps the order.
LEMMA GuardKept ==
  ASSUME Guard, OrderKept, late' = late, StageOK',
         \A n \in Namespaces \ left' : child'[n] # 0 => ChildIsHeld(n)
  PROVE  Guard'
<1>1. ASSUME NEW n \in Namespaces \ left', child'[n] # 0
      PROVE  /\ cr'.finalizer /\ cr'.target = n
             /\ \A i \in 0 .. Latest' : Versions'[i].deleting => Versions'[i].target = n
  BY <1>1 DEF OrderKept, ChildIsHeld
<1>2. ChildrenOK'
  BY <1>1 DEF ChildrenOK
<1> QED BY <1>2 DEF Guard, OrderKept

\* A child nobody touches in a namespace that is not left.
LEMMA StillHeld ==
  ASSUME Guard, left \subseteq left', cr'.target = cr.target \/ cr.target \in left',
         NEW n \in Namespaces \ left', child[n] # 0, cr.finalizer => cr'.finalizer
  PROVE  ChildIsHeld(n)
BY DEF Guard, ChildrenOK, ChildIsHeld

\* A child that is applied or deleted, and those left alone.
LEMMA ServeChildren ==
  ASSUME TypeOK, Guard, at # "Idle", Allowed(at, job), Serve(at, job, body),
         NEW n \in Namespaces \ left', child'[n] # 0
  PROVE  ChildIsHeld(n)
<1>1. /\ left \subseteq left' /\ (cr'.target = cr.target \/ cr.target \in left')
      /\ n \in Namespaces /\ n \notin left
  BY ServeWrites DEF Written
<1>2. CASE at \notin {"Apply", "DeleteChild", "RemoveFinalizer"}
  BY <1>1, <1>2, ServeWrites, StillHeld
<1>3. CASE at = "RemoveFinalizer"
  <2>1. job.deleting /\ child[job.target] = 0 /\ child[n] # 0
    BY <1>3, ServeWrites DEF TypeOK, Guard, StageOK, Cleanup
  <2>2. 0 \in 0 .. Latest /\ Versions[0] = job
    BY <1>3, VersionFacts DEF Copy
  <2> QED BY <1>1, <2>1, <2>2 DEF Guard, ChildrenOK
<1>4. CASE at \in {"Apply", "DeleteChild"} /\ n # job.target
  <2>1. child'[n] = child[n] /\ UNCHANGED <<cr, left>>
    BY <1>1, <1>4, ServeWrites
  <2> QED BY <1>1, <2>1, StillHeld
<1>5. CASE at = "DeleteChild" /\ n = job.target
  BY <1>1, <1>5, ServeWrites
<1>6. CASE at = "Apply" /\ n = job.target
  <2>1. UNCHANGED <<cr, left>> /\ cr.finalizer
    BY <1>6, ServeWrites DEF Guard, StageOK, Calls, Cleanup, Writes
  <2>2. /\ Latest \in 0 .. Latest /\ 0 \in 0 .. Latest
        /\ Versions[0] = job /\ Versions[Latest] = cr
        /\ \A i \in 0 .. Latest : 0 <= i
    BY <1>6, VersionFacts DEF Copy, Guard, LatestIsNow
  <2>3. \A i \in 0 .. Latest : Versions[i].target = n
    BY <1>1, <1>6, <2>2 DEF Guard, InOrder, TargetsLeft
  <2>4. cr.target = n
    BY <2>2, <2>3
  <2> QED BY <2>1, <2>3, <2>4 DEF ChildIsHeld
<1> QED BY <1>2, <1>3, <1>4, <1>5, <1>6

-----------------------------------------------------------------------------
(***************************************************************************)
(* Every action.                                                           *)
(***************************************************************************)
LEMMA GuardUsers ==
  ASSUME TypeOK, TypeOK', Guard, Create \/ EditSpec \/ Retarget \/ Delete
  PROVE  Guard'
<1>1. Written /\ (cr.finalizer => cr'.finalizer)
  BY UsersWrite
<1>2. UNCHANGED <<child, cached, at, job, late>>
  BY DEF Create, EditSpec, Retarget, Delete, idle
<1>3. OrderKept
  BY <1>1, <1>2, WriteKeepsOrder DEF Written, Copy
<1>4. StageOK'
  BY <1>1, <1>2 DEF Guard, StageOK, Written
<1> QED BY <1>1, <1>2, <1>3, <1>4, GuardKept, StillHeld DEF Written

LEMMA GuardElsewhere ==
  ASSUME TypeOK, TypeOK', Guard,
         Tamper \/ Publish \/ ToggleToken \/ DeliverNews \/ Requeue
  PROVE  Guard'
<1>1. UNCHANGED <<cr, feed, left, cached, at, job, late>>
  BY DEF Tamper, Publish, ToggleToken, DeliverNews, Requeue, idle, server
<1>2. \A n \in Namespaces : child[n] = 0 => child'[n] = 0
  <2>1. CASE Tamper
    <3>1. PICK k \in Namespaces, d \in {0, Drift} : child[k] # 0 /\ PutChild(k, d)
      BY <2>1 DEF Tamper
    <3> QED BY <3>1 DEF PutChild, TypeOK
  <2>2. CASE Publish \/ ToggleToken \/ DeliverNews \/ Requeue
    BY <2>2 DEF Publish, ToggleToken, DeliverNews, Requeue, server
  <2> QED BY <2>1, <2>2
<1>3. Written
  BY <1>1, NothingWritten
<1>4. OrderKept
  BY <1>1, <1>3, WriteKeepsOrder DEF Written, Copy
<1>5. StageOK'
  <2>1. job.target \in Namespaces
    BY DEF TypeOK, Crs
  <2> QED BY <1>1, <1>2, <2>1 DEF Guard, StageOK
<1> QED BY <1>1, <1>2, <1>4, <1>5, GuardKept, StillHeld

LEMMA GuardDeliver ==
  ASSUME TypeOK, TypeOK', Guard, Deliver PROVE Guard'
<1>1. UNCHANGED <<cr, left, child, at, job, late>>
  BY DEF Deliver
<1>2. OrderKept
  BY DeliverKeepsOrder
<1>3. StageOK'
  BY <1>1 DEF Guard, StageOK
<1> QED BY <1>1, <1>2, <1>3, GuardKept, StillHeld

\* The path is chosen from the copy that is worked on: where it shows the
\* finalizer, the finalizer is still there.
LEMMA GuardBegin ==
  ASSUME TypeOK, TypeOK', Guard, Begin PROVE Guard'
<1>1. UNCHANGED <<cr, feed, left, child, cached, late>> /\ job' = cached /\ at = "Idle"
  BY DEF Begin, Started, server
<1>2. Written
  BY <1>1, NothingWritten
<1>3. Copy' = cached
  BY <1>1 DEF Copy
<1>4. OrderKept
  BY <1>1, <1>2, <1>3, WriteKeepsOrder DEF Written
<1>5. Held(cached) => cr.finalizer
  <2>1. 1 \in 0 .. Latest /\ Versions[1] = cached
    BY VersionFacts
  <2> QED BY <2>1 DEF Guard, InOrder, HeldNow
<1>6. at' # "RemoveFinalizer" /\ (at' = "AddFinalizer" => Fresh(cached))
      /\ (at' \in {"Idle", "DeleteChild", "AddFinalizer"} \/ Held(cached))
  <2>1. CallsOf(op).sync[2] \in {"Policy", "Apply"}
    <3>1. op \in Operators
      BY DEF TypeOK
    <3>2. ApiConfigSync.sync[2] = "Policy" /\ ConfigMapSync.sync[2] = "Apply"
      BY DEF ApiConfigSync, ConfigMapSync
    <3> QED BY <3>1, <3>2, SyncCalls
  <2> QED BY <2>1 DEF Begin, Fresh, Held
<1>7. StageOK'
  BY <1>1, <1>5, <1>6 DEF Guard, StageOK, Calls, Reads, Writes, Cleanup
<1> QED BY <1>1, <1>4, <1>7, GuardKept, StillHeld

\* The reconcile fails, at a call that the server may have served all the same.
LEMMA GuardFailed ==
  ASSUME TypeOK, TypeOK', Guard, Refused \/ Error PROVE Guard'
<1>1. UNCHANGED <<cached, late>> /\ at' = "Idle" /\ at # "Idle"
  BY DEF Refused, Error, Abort
<1>2. Copy' = cached
  BY <1>1 DEF Copy
<1>3. CASE UNCHANGED server
  <2>1. UNCHANGED <<cr, feed, left, child>>
    BY <1>3 DEF server
  <2>2. OrderKept
    BY <1>1, <1>2, <2>1, NothingWritten, WriteKeepsOrder DEF Written
  <2>3. StageOK'
    BY <1>1, <2>1 DEF Guard, StageOK, Calls, Reads, Writes, Cleanup
  <2> QED BY <1>1, <2>1, <2>2, <2>3, GuardKept, StillHeld
<1>4. CASE Allowed(at, job) /\ Serve(at, job, body)
  <2>1. Written
    BY <1>1, <1>4, ServeWrites
  <2>2. OrderKept
    BY <1>1, <1>2, <2>1, WriteKeepsOrder DEF Written
  <2>3. StageOK'
    BY <1>1, <2>1 DEF Written, StageOK, Calls, Reads, Writes, Cleanup
  <2> QED BY <1>1, <1>4, <2>2, <2>3, GuardKept, ServeChildren
<1> QED BY <1>3, <1>4 DEF Refused, Error

LEMMA GuardProceed ==
  ASSUME TypeOK, TypeOK', Guard, Proceed PROVE Guard'
<1>1. /\ at # "Idle" /\ Allowed(at, job) /\ Serve(at, job, body)
      /\ UNCHANGED <<cached, late>> /\ (at' # "Idle" => job' = job)
  BY DEF Proceed
<1>2. Written
  BY <1>1, ServeWrites
<1>3. Copy' \in {Copy, cached}
  BY <1>1 DEF Copy
<1>4. OrderKept
  BY <1>1, <1>2, <1>3, WriteKeepsOrder DEF Written
<1>5. /\ at' # "AddFinalizer"
      /\ at' \in Cleanup => at = "DeleteChild" /\ at' = "RemoveFinalizer"
      /\ at \in Cleanup => at' \in Cleanup \cup {"Idle"}
  BY <1>1, NextCall DEF Proceed, TypeOK
<1>6. at' \in Calls \ (Cleanup \cup {"AddFinalizer"}) => cr'.finalizer
  <2> SUFFICES ASSUME at' \in Calls \ (Cleanup \cup {"AddFinalizer"})
               PROVE  cr'.finalizer
    OBVIOUS
  <2>1. at \in Calls /\ at \notin Cleanup
    BY <1>1, <1>5 DEF TypeOK, Calls, Reads, Writes, Cleanup
  <2>2. at = "AddFinalizer" \/ cr.finalizer
    BY <2>1 DEF Guard, StageOK
  <2> QED BY <1>1, <2>1, <2>2, ServeWrites DEF Cleanup
<1>7. at' = "RemoveFinalizer" => child'[job'.target] = 0
  <2>1. job.target \in Namespaces
    BY DEF TypeOK, Crs
  <2> QED BY <1>1, <1>5, <2>1, ServeWrites DEF Cleanup
<1>8. StageOK'
  BY <1>2, <1>5, <1>6, <1>7 DEF StageOK, Written
<1> QED BY <1>1, <1>4, <1>8, GuardKept, ServeChildren

-----------------------------------------------------------------------------
LEMMA GuardInit == Init => GuardInv
<1> SUFFICES ASSUME Init PROVE Guard
  BY TypeInit DEF GuardInv
<1>1. /\ cr = NoCr /\ cached = NoCr /\ feed = <<>> /\ at = "Idle" /\ late = {}
      /\ child = [n \in Namespaces |-> 0] /\ ~NoCr.finalizer /\ ~NoCr.deleting
      /\ ~NoCr.exists
  BY DEF Init, NoCr
<1>2. Latest = 1 /\ \A i \in 0 .. Latest : Versions[i] = NoCr
  BY <1>1 DEF Latest, Versions, Version, Copy
<1>3. InOrder(Versions, Latest, cr, left)
  BY <1>1, <1>2 DEF InOrder, HeldNow, HeldBeforeDeleting, OneDeletion,
                    FreshBeforeDeleting, TargetsLeft, Held, Fresh
<1>4. LatestIsNow /\ StageOK /\ ChildrenOK
  BY <1>1, <1>2 DEF LatestIsNow, StageOK, ChildrenOK, Calls, Reads, Writes, Cleanup
<1> QED BY <1>1, <1>3, <1>4 DEF Guard

LEMMA GuardStep == GuardInv /\ [Next]_vars => GuardInv'
<1> SUFFICES ASSUME GuardInv, [Next]_vars, dropped' = 0 PROVE Guard'
  BY TypeStep DEF GuardInv
<1>1. TypeOK /\ TypeOK'
  BY TypeStep DEF GuardInv
<1>2. dropped = 0 /\ Guard /\ ~Drop
  <2>1. dropped \in Nat /\ (Drop => dropped' = dropped + 1)
    BY <1>1, SyncAssumption DEF TypeOK, Drop
  <2>2. dropped' = dropped \/ Drop
    BY DEF Next, vars, bounds, idle, Create, EditSpec, Retarget, Delete, Tamper,
           Publish, ToggleToken, Deliver, DeliverNews, Requeue, Begin, Started,
           Proceed, Refused, Error, Land
  <2> QED BY <2>1, <2>2 DEF GuardInv
<1>3. CASE UNCHANGED vars
  <2>1. UNCHANGED <<cr, feed, left, child, cached, at, job, late>>
    BY <1>3 DEF vars, server
  <2> QED BY <1>2, <2>1 DEF Guard, LatestIsNow, Versions, Version, Copy, Latest,
                            StageOK, ChildrenOK
<1>4. ~Land
  BY <1>2 DEF Land, Guard
<1> QED BY <1>1, <1>2, <1>3, <1>4, GuardUsers, GuardElsewhere, GuardDeliver,
           GuardBegin, GuardFailed, GuardProceed DEF Next

\* Finalizer first, removed last (configmapsync/src/reconciler.rs:53-100): while
\* no reconcile is dropped, a child in a namespace no target was taken away from
\* has a resource with a finalizer, however old the copy is that the reconcile
\* works on and whatever calls fail.
THEOREM ChildrenAreGuarded == Spec => []ChildGuarded
<1>1. GuardInv => ChildGuarded
  BY DEF GuardInv, Guard, ChildrenOK, StageOK, ChildGuarded
<1> QED BY <1>1, GuardInit, GuardStep, PTL DEF Spec
=============================================================================
