----------------------------- MODULE Helpers_proofs -----------------------------
(***************************************************************************)
(* Theorems about Helpers, for any objects, controllers, data and bounds.  *)
(***************************************************************************)
EXTENDS Helpers, SequenceTheorems, FiniteSetTheorems, TLAPS

-----------------------------------------------------------------------------
(***************************************************************************)
(* Sequences.                                                              *)
(***************************************************************************)
\* RemoveAt takes one entry out and keeps every other value.
LEMMA RemoveAtKeeps ==
  ASSUME NEW S, NEW s \in Seq(S), NEW i \in DOMAIN s
  PROVE  /\ RemoveAt(s, i) \in Seq(S)
         /\ \A x \in ToSet(s) : x # s[i] => x \in ToSet(RemoveAt(s, i))
         /\ Len(RemoveAt(s, i)) = Len(s) - 1
         /\ \A j \in 1 .. Len(s) - 1 :
              RemoveAt(s, i)[j] = IF j < i THEN s[j] ELSE s[j + 1]
<1> DEFINE a == SubSeq(s, 1, i - 1)
           b == SubSeq(s, i + 1, Len(s))
<1>1. i \in 1 .. Len(s) /\ Len(s) \in Nat /\ \A j \in 1 .. Len(s) : s[j] \in S
  OBVIOUS
<1>2. /\ a \in Seq(S) /\ Len(a) = i - 1
      /\ \A j \in 1 .. i - 1 : a[j] = s[j]
  <2>1. /\ a \in Seq(S)
        /\ Len(a) = IF 1 <= i - 1 THEN (i - 1) - 1 + 1 ELSE 0
        /\ \A j \in 1 .. (i - 1) - 1 + 1 : a[j] = s[1 + j - 1]
    BY <1>1, SubSeqProperties
  <2> QED  BY <1>1, <2>1
<1>3. /\ b \in Seq(S) /\ Len(b) = Len(s) - i
      /\ \A j \in 1 .. Len(s) - i : b[j] = s[i + j]
  <2>1. /\ b \in Seq(S)
        /\ Len(b) = IF i + 1 <= Len(s) THEN Len(s) - (i + 1) + 1 ELSE 0
        /\ \A j \in 1 .. Len(s) - (i + 1) + 1 : b[j] = s[(i + 1) + j - 1]
    BY <1>1, SubSeqProperties
  <2> QED  BY <1>1, <2>1
<1> HIDE DEF a, b
<1> DEFINE n == Len(s)
           c == a \o b
<1>4. n \in Nat /\ i \in Int /\ 1 <= i /\ i <= n
  BY <1>1
<1> HIDE DEF n
<1>5. /\ c \in Seq(S) /\ Len(c) = n - 1
      /\ \A j \in 1 .. n - 1 : c[j] = IF j < i THEN s[j] ELSE s[j + 1]
  <2>1. Len(a) = i - 1 /\ Len(b) = n - i
    BY <1>2, <1>3 DEF n
  <2>2. /\ c \in Seq(S) /\ Len(c) = (i - 1) + (n - i)
        /\ \A j \in 1 .. (i - 1) + (n - i) :
             c[j] = IF j <= i - 1 THEN a[j] ELSE b[j - (i - 1)]
    <3>1. /\ c \in Seq(S) /\ Len(c) = Len(a) + Len(b)
          /\ \A j \in 1 .. Len(a) + Len(b) :
               c[j] = IF j <= Len(a) THEN a[j] ELSE b[j - Len(a)]
      BY <1>2, <1>3, ConcatProperties
    <3> HIDE DEF c
    <3> QED  BY <2>1, <3>1
  <2>3. (i - 1) + (n - i) = n - 1
    BY <1>4
  <2>4. ASSUME NEW j \in 1 .. n - 1, j < i
        PROVE  c[j] = s[j]
    <3>1. j \in 1 .. i - 1 /\ j <= i - 1
      BY <1>4, <2>4
    <3> QED  BY <1>2, <2>2, <2>3, <3>1
  <2>5. ASSUME NEW j \in 1 .. n - 1, ~(j < i)
        PROVE  c[j] = s[j + 1]
    <3> DEFINE d == j - (i - 1)
    <3>1. d \in 1 .. n - i /\ i + d = j + 1 /\ ~(j <= i - 1)
      BY <1>4, <2>5
    <3>2. c[j] = b[d]
      BY <2>2, <2>3, <3>1
    <3> HIDE DEF d
    <3>3. b[d] = s[i + d]
      BY <1>3, <3>1 DEF n
    <3> QED  BY <3>1, <3>2, <3>3
  <2> QED  BY <2>2, <2>3, <2>4, <2>5
<1> HIDE DEF c
<1>6. RemoveAt(s, i) = c
  BY DEF RemoveAt, a, b, c
<1>7. DOMAIN c = 1 .. n - 1
  BY <1>4, <1>5
<1>8. ASSUME NEW j \in DOMAIN s, s[j] # s[i]
      PROVE  s[j] \in ToSet(c)
  <2>1. j \in 1 .. n /\ j # i
    BY <1>8 DEF n
  <2>2. CASE j < i
    <3>1. j \in 1 .. n - 1 /\ c[j] = s[j]
      BY <1>4, <1>5, <2>1, <2>2
    <3> QED  BY <1>7, <3>1 DEF ToSet
  <2>3. CASE ~(j < i)
    <3>1. j - 1 \in 1 .. n - 1 /\ ~(j - 1 < i) /\ (j - 1) + 1 = j
      BY <1>4, <2>1, <2>3
    <3>2. c[j - 1] = s[j]
      BY <1>5, <3>1
    <3> QED  BY <1>7, <3>1, <3>2 DEF ToSet
  <2> QED  BY <2>2, <2>3
<1>9. \A x \in ToSet(s) : x # s[i] => x \in ToSet(c)
  BY <1>8 DEF ToSet
<1> QED  BY <1>5, <1>6, <1>9 DEF n

\* Append keeps every value and adds one.
LEMMA AppendKeeps ==
  ASSUME NEW S, NEW s \in Seq(S), NEW e \in S
  PROVE  /\ Append(s, e) \in Seq(S)
         /\ e \in ToSet(Append(s, e))
         /\ \A x \in ToSet(s) : x \in ToSet(Append(s, e))
<1>1. Append(s, e) \in Seq(S) /\ Len(Append(s, e)) = Len(s) + 1
  OBVIOUS
<1>2. Append(s, e)[Len(s) + 1] = e /\ \A i \in DOMAIN s : Append(s, e)[i] = s[i]
  OBVIOUS
<1> QED  BY <1>1, <1>2 DEF ToSet

-----------------------------------------------------------------------------
(***************************************************************************)
(* HeldKept.  It is not inductive: it takes that a uid is given once, so    *)
(* that a mark belongs to one object, and that no mark is of an object yet  *)
(* to come.                                                                 *)
(***************************************************************************)
ObjectsOK ==
  /\ objects \in [Keys -> Object \cup {Absent}]
  /\ clock \in Nat
  /\ held \subseteq Mark

NumbersOK ==
  /\ \A k \in Live : objects[k].uid \in 1 .. clock
  /\ \A k, l \in Live : objects[k].uid = objects[l].uid => k = l
  /\ \A k \in Live : objects[k].rv \in 0 .. clock
  /\ \A m \in held : m.uid <= clock

Marked(m, o) ==
  IF m.sort = "label" THEN m.by \in o.labels ELSE m.by \in ToSet(o.finalizers)

\* What Marked asks of objects, mark by mark.
MarksKept ==
  \A m \in held :
    /\ \A k \in Live : objects[k].uid = m.uid => Marked(m, objects[k])
    /\ m.sort = "finalizer" => \E k \in Live : objects[k].uid = m.uid

HeldInv == ObjectsOK /\ NumbersOK /\ MarksKept

\* An object that is there after a step is new, or was there, and does not come
\* back from its deletion.
Continues ==
  \A k \in Live' :
    \/ objects'[k].uid = clock + 1
    \/ /\ k \in Live /\ objects'[k].uid = objects[k].uid
       /\ objects[k].deleting => objects'[k].deleting

\* What is shown of every step.
HeldStep == HeldInv' /\ clock <= clock' /\ Continues

\* A write of new at k that gives no uid away and honours the marks of held'.
Honours(k, new) ==
  /\ held' \subseteq Mark
  /\ new \in Object
  /\ IF Exists(k) THEN new.uid = objects[k].uid ELSE new.uid = clock + 1
  /\ Exists(k) /\ objects[k].deleting => new.deleting
  /\ \A m \in held' : IF m.uid = new.uid THEN Marked(m, new) ELSE m \in held

LEMMA InvImpliesHeldKept == HeldInv => HeldKept
<1> SUFFICES ASSUME HeldInv, NEW m \in held
             PROVE  IF m.sort = "label"
                    THEN \A k \in Live : objects[k].uid = m.uid => m.by \in objects[k].labels
                    ELSE \E k \in Live : /\ objects[k].uid = m.uid
                                         /\ m.by \in ToSet(objects[k].finalizers)
  BY DEF HeldKept
<1>1. m.sort \in {"finalizer", "label"}
  BY DEF HeldInv, ObjectsOK, Mark
<1>2. /\ \A k \in Live : objects[k].uid = m.uid => Marked(m, objects[k])
      /\ m.sort = "finalizer" => \E k \in Live : objects[k].uid = m.uid
  BY DEF HeldInv, MarksKept
<1> QED  BY <1>1, <1>2 DEF Marked

\* No step that leaves the objects, the clock and the marks alone disturbs it.
LEMMA QuietKeeps ==
  ASSUME HeldInv, UNCHANGED <<objects, clock, held>>
  PROVE  HeldStep
<1>1. objects' = objects /\ clock' = clock /\ held' = held
  OBVIOUS
<1> QED
  BY <1>1 DEF HeldStep, HeldInv, ObjectsOK, NumbersOK, MarksKept, Live, Exists, Marked,
              Continues

LEMMA PutKeeps ==
  ASSUME HeldInv, NEW k \in Keys, NEW new, Honours(k, new), Put(k, new)
  PROVE  HeldStep
<1> USE DEF HeldInv
<1>1. /\ new \in Object /\ new.uid \in Nat /\ new.uid > 0
      /\ Absent \notin {o \in Object : o.uid > 0}
      /\ Exists(k) => new.uid = objects[k].uid /\ new.uid <= clock
      /\ ~Exists(k) => new.uid = clock + 1
      /\ clock \in Nat
  BY DEF Honours, Object, ObjectsOK, NumbersOK, Live, Absent
<1>2. \A l \in Live : objects[l].uid = new.uid => l = k
  BY <1>1 DEF NumbersOK, Live
<1>3. \A m \in held' : m.uid = new.uid => Marked(m, new)
  BY DEF Honours
<1>4. \A m \in held' : m.uid # new.uid => m \in held
  BY DEF Honours
<1>5. held' \subseteq Mark
  BY DEF Honours
<1>6. CASE new = objects[k]
  <2>1. objects' = objects /\ clock' = clock
    BY <1>6 DEF Put
  <2>2. k \in Live
    BY <1>1, <1>6 DEF Live, Exists
  <2>3. Live' = Live
    BY <2>1 DEF Live, Exists
  <2>4. ObjectsOK'
    BY <1>5, <2>1 DEF ObjectsOK
  <2>5. NumbersOK'
    <3>1. \A m \in held' : m.uid <= clock
      BY <1>1, <1>4, <2>2 DEF NumbersOK, Live
    <3> QED  BY <2>1, <2>3, <3>1 DEF NumbersOK
  <2>6. ASSUME NEW m \in held'
        PROVE  /\ \A l \in Live : objects[l].uid = m.uid => Marked(m, objects[l])
               /\ m.sort = "finalizer" => \E l \in Live : objects[l].uid = m.uid
    <3>1. CASE m.uid = new.uid
      BY <1>2, <1>3, <1>6, <2>2, <2>6, <3>1
    <3>2. CASE m.uid # new.uid
      BY <1>4, <2>6, <3>2 DEF MarksKept
    <3> QED  BY <3>1, <3>2
  <2>7. MarksKept'
    BY <2>1, <2>3, <2>6 DEF MarksKept, Marked
  <2>8. Continues
    BY <2>1, <2>3 DEF Continues
  <2> QED  BY <1>1, <2>1, <2>4, <2>5, <2>7, <2>8 DEF HeldStep
<1>7. CASE new # objects[k]
  <2> DEFINE gone == new.deleting /\ new.finalizers = <<>>
             o == IF gone THEN Absent ELSE [new EXCEPT !.rv = clock + 1]
  <2>1. objects' = [objects EXCEPT ![k] = o] /\ clock' = clock + 1
    BY <1>7 DEF Put
  <2>2. ~gone => /\ o \in Object /\ o.uid = new.uid /\ o # Absent /\ o.rv = clock + 1
                 /\ o.deleting = new.deleting
                 /\ o.labels = new.labels /\ o.finalizers = new.finalizers
    BY <1>1 DEF Object, Absent
  <2>3. gone => o = Absent /\ new.finalizers = <<>>
    OBVIOUS
  <2> HIDE DEF gone, o
  <2>4. objects'[k] = o /\ \A l \in Keys : l # k => objects'[l] = objects[l]
    BY <2>1 DEF ObjectsOK
  <2>5. \A l \in Live' : IF l = k THEN ~gone /\ objects'[l] = o
                         ELSE l \in Live /\ objects'[l] = objects[l]
    BY <2>3, <2>4 DEF Live, Exists
  <2>6. \A l \in Live : l # k => l \in Live' /\ objects'[l] = objects[l]
    BY <2>4 DEF Live, Exists
  <2>7. ~gone => k \in Live' /\ objects'[k] = o
    BY <2>2, <2>4 DEF Live, Exists
  <2>8. ObjectsOK'
    BY <1>1, <1>5, <2>1, <2>2, <2>3 DEF ObjectsOK
  <2>9. NumbersOK'
    <3>1. ASSUME NEW l \in Live' PROVE objects'[l].uid \in 1 .. clock + 1
      <4>1. CASE l = k
        BY <1>1, <2>2, <2>5, <4>1
      <4>2. CASE l # k
        <5>1. objects'[l] = objects[l] /\ objects[l].uid \in 1 .. clock
          BY <2>5, <4>2 DEF NumbersOK
        <5> QED  BY <1>1, <5>1
      <4> QED  BY <4>1, <4>2
    <3>2. ASSUME NEW l \in Live', l # k PROVE objects'[l].uid # new.uid
      BY <1>2, <2>5, <3>2
    <3>3. ASSUME NEW l \in Live', NEW j \in Live', objects'[l].uid = objects'[j].uid
          PROVE  l = j
      <4>1. CASE l = k \/ j = k
        BY <2>2, <2>5, <3>2, <3>3, <4>1
      <4>2. CASE l # k /\ j # k
        BY <2>5, <3>3, <4>2 DEF NumbersOK
      <4> QED  BY <4>1, <4>2
    <3>4. ASSUME NEW m \in held' PROVE m.uid <= clock + 1
      <4>1. CASE m.uid = new.uid
        BY <1>1, <4>1
      <4>2. CASE m.uid # new.uid
        <5>1. m.uid <= clock /\ m.uid \in Nat
          BY <1>4, <1>5, <3>4, <4>2 DEF NumbersOK, Mark
        <5> QED  BY <1>1, <5>1
      <4> QED  BY <4>1, <4>2
    <3>5. ASSUME NEW l \in Live' PROVE objects'[l].rv \in 0 .. clock + 1
      <4>1. CASE l = k
        BY <1>1, <2>2, <2>5, <4>1
      <4>2. CASE l # k
        <5>1. objects'[l] = objects[l] /\ objects[l].rv \in 0 .. clock
          BY <2>5, <4>2 DEF NumbersOK
        <5> QED  BY <1>1, <5>1
      <4> QED  BY <4>1, <4>2
    <3> QED  BY <2>1, <3>1, <3>3, <3>4, <3>5 DEF NumbersOK
  <2>10. ASSUME NEW m \in held', NEW l \in Live', objects'[l].uid = m.uid
         PROVE  Marked(m, objects'[l])
    <3>1. CASE l = k
      <4>1. objects'[l] = o /\ o.labels = new.labels /\ o.finalizers = new.finalizers
            /\ m.uid = new.uid
        BY <2>2, <2>5, <2>10, <3>1
      <4> QED  BY <1>3, <2>10, <4>1 DEF Marked
    <3>2. CASE l # k
      <4>1. l \in Live /\ objects'[l] = objects[l]
        BY <2>5, <3>2
      <4>2. m.uid # new.uid
        BY <1>2, <2>10, <3>2, <4>1
      <4> QED  BY <1>4, <2>10, <4>1, <4>2 DEF MarksKept
    <3> QED  BY <3>1, <3>2
  <2>11. ASSUME NEW m \in held', m.sort = "finalizer"
         PROVE  \E l \in Live' : objects'[l].uid = m.uid
    <3>1. CASE m.uid = new.uid
      <4>1. m.by \in ToSet(new.finalizers)
        BY <1>3, <2>11, <3>1 DEF Marked
      <4>2. ~gone
        BY <2>3, <4>1 DEF ToSet
      <4> QED  BY <2>2, <2>7, <3>1, <4>2
    <3>2. CASE m.uid # new.uid
      <4>1. PICK l \in Live : objects[l].uid = m.uid
        BY <1>4, <2>11, <3>2 DEF MarksKept
      <4>2. l # k
        <5>1. l = k => Exists(k)
          BY <4>1 DEF Live
        <5> QED  BY <1>1, <3>2, <4>1, <5>1
      <4> QED  BY <2>6, <4>1, <4>2
    <3> QED  BY <3>1, <3>2
  <2>12. MarksKept'
    BY <2>10, <2>11 DEF MarksKept, Marked
  <2>13. ASSUME NEW l \in Live', objects'[l].uid # clock + 1
         PROVE  /\ l \in Live /\ objects'[l].uid = objects[l].uid
                /\ objects[l].deleting => objects'[l].deleting
    <3>1. CASE l = k
      <4>1. ~gone /\ objects'[k] = o
        BY <2>5, <2>13, <3>1
      <4>2. Exists(k)
        BY <1>1, <2>2, <2>13, <3>1, <4>1
      <4>3. Exists(k) /\ objects[k].deleting => new.deleting
        BY DEF Honours
      <4> QED  BY <1>1, <2>2, <3>1, <4>1, <4>2, <4>3 DEF Live
    <3>2. CASE l # k
      BY <2>5, <2>13, <3>2
    <3> QED  BY <3>1, <3>2
  <2>14. Continues
    BY <2>13 DEF Continues
  <2> QED  BY <1>1, <2>1, <2>8, <2>9, <2>12, <2>14 DEF HeldStep
<1> QED  BY <1>6, <1>7

\* An edit that keeps what others have put on the object.
LEMMA EditKeeps ==
  ASSUME HeldInv, NEW k \in Live, NEW new \in Object, Put(k, new),
         new.uid = objects[k].uid, held' = held,
         objects[k].deleting => new.deleting,
         \A f \in Others : f \in objects[k].labels => f \in new.labels,
         \A f \in Others :
           f \in ToSet(objects[k].finalizers) => f \in ToSet(new.finalizers)
  PROVE  HeldStep
<1>1. \A m \in held : m.by \in Others
  BY DEF HeldInv, ObjectsOK, Mark
<1>2. ASSUME NEW m \in held, m.uid = new.uid PROVE Marked(m, new)
  <2>1. Marked(m, objects[k])
    BY <1>2 DEF HeldInv, MarksKept
  <2> QED  BY <1>1, <2>1 DEF Marked
<1>3. Honours(k, new)
  BY <1>2 DEF Honours, HeldInv, ObjectsOK, Live
<1> QED  BY <1>3, PutKeeps DEF Live

LEMMA CreateKeeps ==
  ASSUME HeldInv, NEW k \in Keys, ~Exists(k), held' = held,
         NEW labels \in SUBSET (Others \cup {Owner}), NEW d \in Data,
         Put(k, New(labels, d))
  PROVE  HeldStep
<1> DEFINE new == New(labels, d)
<1>1. new \in Object /\ new.uid = clock + 1 /\ clock \in Nat
  BY DEF New, Object, HeldInv, ObjectsOK
<1>2. \A m \in held : m.uid # clock + 1
  <2>1. \A m \in held : m.uid <= clock /\ m.uid \in Nat
    BY DEF HeldInv, ObjectsOK, NumbersOK, Mark
  <2> QED  BY <1>1, <2>1
<1>3. Honours(k, new)
  BY <1>1, <1>2 DEF Honours, HeldInv, ObjectsOK
<1> QED  BY <1>3, PutKeeps

LEMMA LiveObject == ASSUME HeldInv, NEW k \in Live PROVE objects[k] \in Object /\ k \in Keys
  BY DEF HeldInv, ObjectsOK, Live, Exists

LEMMA TerminateKeeps ==
  ASSUME HeldInv, NEW k \in Live, Terminate(k), held' = held
  PROVE  HeldStep
<1> DEFINE new == [objects[k] EXCEPT !.deleting = TRUE]
<1>1. /\ new \in Object /\ new.uid = objects[k].uid
      /\ new.labels = objects[k].labels /\ new.finalizers = objects[k].finalizers
      /\ new.deleting
  BY LiveObject DEF Object
<1> QED  BY <1>1, EditKeeps DEF Terminate

\* The writes of users and others.
LEMMA ApiKeeps == ASSUME HeldInv, ApiNext PROVE HeldStep
<1>1. CASE UserCreates
  <2>1. PICK k \in Keys, labels \in SUBSET {Owner}, d \in Data :
          ~Exists(k) /\ Put(k, New(labels, d))
    BY <1>1 DEF UserCreates
  <2>2. labels \in SUBSET (Others \cup {Owner}) /\ held' = held
    BY <1>1 DEF UserCreates
  <2> QED  BY <2>1, <2>2, CreateKeeps
<1>2. CASE UserEdits
  <2>1. PICK k \in Live :
          \/ \E d \in Data : Put(k, [objects[k] EXCEPT !.data = d])
          \/ Put(k, [objects[k] EXCEPT !.labels =
                       IF Owner \in @ THEN @ \ {Owner} ELSE @ \cup {Owner}])
    BY <1>2 DEF UserEdits
  <2>2. held' = held /\ objects[k] \in Object
    BY <1>2, LiveObject DEF UserEdits
  <2>3. ASSUME NEW d \in Data, Put(k, [objects[k] EXCEPT !.data = d])
        PROVE  HeldStep
    <3> DEFINE new == [objects[k] EXCEPT !.data = d]
    <3>1. /\ new \in Object /\ new.uid = objects[k].uid
          /\ new.labels = objects[k].labels /\ new.finalizers = objects[k].finalizers
          /\ new.deleting = objects[k].deleting
      BY <2>2 DEF Object
    <3> QED  BY <2>2, <2>3, <3>1, EditKeeps
  <2>4. ASSUME NEW ls, ls = IF Owner \in objects[k].labels
                            THEN objects[k].labels \ {Owner}
                            ELSE objects[k].labels \cup {Owner},
               Put(k, [objects[k] EXCEPT !.labels = ls])
        PROVE  HeldStep
    <3> DEFINE new == [objects[k] EXCEPT !.labels = ls]
    <3>1. ls \in SUBSET (Others \cup {Owner})
      BY <2>2, <2>4 DEF Object
    <3>2. /\ new \in Object /\ new.uid = objects[k].uid
          /\ new.labels = ls /\ new.finalizers = objects[k].finalizers
          /\ new.deleting = objects[k].deleting
      BY <2>2, <3>1 DEF Object
    <3>3. \A f \in Others : f \in objects[k].labels => f \in ls
      BY <2>4, ApiAssumption
    <3> QED  BY <2>2, <2>4, <3>2, <3>3, EditKeeps
  <2> QED  BY <2>1, <2>3, <2>4
<1>3. CASE UserDeletes
  BY <1>3, TerminateKeeps DEF UserDeletes
<1>4. CASE OtherMarks
  <2>1. PICK k \in Live, f \in Others :
          \/ /\ ~objects[k].deleting /\ f \notin ToSet(objects[k].finalizers)
             /\ Put(k, [objects[k] EXCEPT !.finalizers = Append(@, f)])
             /\ held' = held \cup {[uid |-> objects[k].uid, sort |-> "finalizer", by |-> f]}
          \/ /\ f \notin objects[k].labels
             /\ Put(k, [objects[k] EXCEPT !.labels = @ \cup {f}])
             /\ held' = held \cup {[uid |-> objects[k].uid, sort |-> "label", by |-> f]}
    BY <1>4 DEF OtherMarks
  <2>2. objects[k] \in Object /\ k \in Keys /\ Exists(k)
    BY LiveObject DEF Live
  <2>3. \A m \in held : m.uid = objects[k].uid => Marked(m, objects[k])
    BY DEF HeldInv, MarksKept
  <2>4. CASE /\ Put(k, [objects[k] EXCEPT !.finalizers = Append(@, f)])
             /\ held' = held \cup {[uid |-> objects[k].uid, sort |-> "finalizer", by |-> f]}
    <3> DEFINE fs == Append(objects[k].finalizers, f)
               new == [objects[k] EXCEPT !.finalizers = fs]
    <3>1. /\ fs \in Seq(Others \cup {Mine}) /\ f \in ToSet(fs)
          /\ \A x \in ToSet(objects[k].finalizers) : x \in ToSet(fs)
      BY <2>2, AppendKeeps DEF Object
    <3> HIDE DEF fs
    <3>2. /\ new \in Object /\ new.uid = objects[k].uid
          /\ new.labels = objects[k].labels /\ new.finalizers = fs
          /\ new.deleting = objects[k].deleting
      BY <2>2, <3>1 DEF Object
    <3>3. Put(k, new)
      BY <2>4 DEF fs
    <3> HIDE DEF new
    <3>4. held' \subseteq Mark
      BY <2>2, <2>4 DEF HeldInv, ObjectsOK, Mark, Object
    <3>5. ASSUME NEW m \in held' PROVE IF m.uid = new.uid THEN Marked(m, new) ELSE m \in held
      <4>1. CASE m \in held
        BY <2>3, <3>1, <3>2, <4>1 DEF Marked
      <4>2. CASE m = [uid |-> objects[k].uid, sort |-> "finalizer", by |-> f]
        BY <3>1, <3>2, <4>2 DEF Marked
      <4> QED  BY <2>4, <4>1, <4>2
    <3>6. Honours(k, new)
      BY <2>2, <3>2, <3>4, <3>5 DEF Honours
    <3> QED  BY <2>2, <3>3, <3>6, PutKeeps
  <2>5. CASE /\ Put(k, [objects[k] EXCEPT !.labels = @ \cup {f}])
             /\ held' = held \cup {[uid |-> objects[k].uid, sort |-> "label", by |-> f]}
    <3> DEFINE new == [objects[k] EXCEPT !.labels = @ \cup {f}]
    <3>1. /\ new \in Object /\ new.uid = objects[k].uid
          /\ new.labels = objects[k].labels \cup {f}
          /\ new.finalizers = objects[k].finalizers
          /\ new.deleting = objects[k].deleting
      BY <2>2 DEF Object
    <3> HIDE DEF new
    <3>2. held' \subseteq Mark
      BY <2>2, <2>5 DEF HeldInv, ObjectsOK, Mark, Object
    <3>3. ASSUME NEW m \in held' PROVE IF m.uid = new.uid THEN Marked(m, new) ELSE m \in held
      <4>1. CASE m \in held
        BY <2>3, <3>1, <4>1 DEF Marked
      <4>2. CASE m = [uid |-> objects[k].uid, sort |-> "label", by |-> f]
        BY <3>1, <4>2 DEF Marked
      <4> QED  BY <2>5, <4>1, <4>2
    <3>4. Honours(k, new)
      BY <2>2, <3>1, <3>2, <3>3 DEF Honours
    <3>5. Put(k, new)
      BY <2>5 DEF new
    <3> QED  BY <2>2, <3>4, <3>5, PutKeeps
  <2> QED  BY <2>1, <2>4, <2>5
<1>5. CASE OtherUnmarks
  <2>1. PICK k \in Live, m \in held :
          /\ m.uid = objects[k].uid /\ m.sort = "finalizer"
          /\ \E i \in DOMAIN objects[k].finalizers :
               /\ objects[k].finalizers[i] = m.by
               /\ Put(k, [objects[k] EXCEPT !.finalizers = RemoveAt(@, i)])
          /\ held' = held \ {m}
    BY <1>5 DEF OtherUnmarks
  <2>2. PICK i \in DOMAIN objects[k].finalizers :
          /\ objects[k].finalizers[i] = m.by
          /\ Put(k, [objects[k] EXCEPT !.finalizers = RemoveAt(@, i)])
    BY <2>1
  <2>3. objects[k] \in Object /\ k \in Keys /\ Exists(k)
    BY LiveObject DEF Live
  <2> DEFINE fs == RemoveAt(objects[k].finalizers, i)
             new == [objects[k] EXCEPT !.finalizers = fs]
  <2>4. /\ fs \in Seq(Others \cup {Mine})
        /\ \A x \in ToSet(objects[k].finalizers) : x # m.by => x \in ToSet(fs)
    BY <2>2, <2>3, RemoveAtKeeps DEF Object
  <2> HIDE DEF fs
  <2>5. /\ new \in Object /\ new.uid = objects[k].uid
        /\ new.labels = objects[k].labels /\ new.finalizers = fs
        /\ new.deleting = objects[k].deleting
    BY <2>3, <2>4 DEF Object
  <2>6. Put(k, new)
    BY <2>2 DEF fs
  <2> HIDE DEF new
  <2>7. ASSUME NEW n \in held', n.uid = new.uid PROVE Marked(n, new)
    <3>1. n \in held /\ n # m /\ n \in Mark /\ m \in Mark
      BY <2>1, <2>7 DEF HeldInv, ObjectsOK
    <3>2. Marked(n, objects[k])
      BY <2>5, <2>7, <3>1 DEF HeldInv, MarksKept
    <3>3. CASE n.sort = "label"
      BY <2>5, <3>2, <3>3 DEF Marked
    <3>4. CASE n.sort # "label"
      <4>1. n.by # m.by
        BY <2>1, <2>5, <2>7, <3>1, <3>4 DEF Mark
      <4> QED  BY <2>4, <2>5, <3>2, <3>4, <4>1 DEF Marked
    <3> QED  BY <3>3, <3>4
  <2>8. Honours(k, new)
    BY <2>1, <2>3, <2>5, <2>7 DEF Honours, HeldInv, ObjectsOK
  <2> QED  BY <2>3, <2>6, <2>8, PutKeeps
<1> QED  BY <1>1, <1>2, <1>3, <1>4, <1>5 DEF ApiNext

\* The finalizer patches.
LEMMA FinalizersKeep ==
  ASSUME HeldInv, copy \in [key : Keys, object : Object \cup {Absent}], FinalizersNext
  PROVE  HeldStep /\ copy' \in [key : Keys, object : Object \cup {Absent}]
<1> DEFINE k == copy.key
           Typed == copy \in [key : Keys, object : Object \cup {Absent}]
<1>1. k \in Keys /\ copy.object \in Object \cup {Absent}
  OBVIOUS
<1>2. objects \in [Keys -> Object \cup {Absent}]
  BY DEF HeldInv, ObjectsOK
<1>3. ASSUME HeldStep, Reply PROVE Typed'
  <2>1. objects'[k] \in Object \cup {Absent}
    BY <1>1, <1>3 DEF HeldStep, HeldInv, ObjectsOK
  <2> QED  BY <1>1, <1>3, <2>1 DEF Reply
<1>4. CASE ReadCopy
  <2>1. Typed'
    BY <1>4, LiveObject DEF ReadCopy
  <2> QED  BY <1>4, <2>1, QuietKeeps DEF ReadCopy, api
<1>5. CASE add_finalizer
  <2>1. /\ Exists(k) /\ held' = held /\ Reply
        /\ Put(k, [objects[k] EXCEPT !.finalizers = Append(@, Mine)])
    BY <1>5 DEF add_finalizer, add_finalizer_patch
  <2>2. k \in Live /\ objects[k] \in Object
    BY <1>1, <1>2, <2>1 DEF Live, Exists
  <2> DEFINE fs == Append(objects[k].finalizers, Mine)
             new == [objects[k] EXCEPT !.finalizers = fs]
  <2>3. /\ fs \in Seq(Others \cup {Mine})
        /\ \A x \in ToSet(objects[k].finalizers) : x \in ToSet(fs)
    BY <2>2, AppendKeeps DEF Object
  <2>4. Put(k, new)
    BY <2>1
  <2> HIDE DEF fs
  <2>5. /\ new \in Object /\ new.uid = objects[k].uid
        /\ new.labels = objects[k].labels /\ new.finalizers = fs
        /\ new.deleting = objects[k].deleting
    BY <2>2, <2>3 DEF Object
  <2> HIDE DEF new, k
  <2>6. HeldStep
    BY <2>1, <2>2, <2>3, <2>4, <2>5, EditKeeps
  <2> QED  BY <1>3, <2>1, <2>6
<1>6. CASE remove_finalizer
  <2>1. /\ Exists(k) /\ held' = held /\ Reply
        /\ index <= Len(objects[k].finalizers)
        /\ objects[k].finalizers[index] = Mine
        /\ Put(k, [objects[k] EXCEPT !.finalizers = RemoveAt(@, index)])
    BY <1>6 DEF remove_finalizer, remove_finalizer_patch
  <2>2. k \in Live /\ objects[k] \in Object
    BY <1>1, <1>2, <2>1 DEF Live, Exists
  <2>3. index \in 1 .. Len(current_finalizers)
    <3>1. copy.object \in Object /\ Mine \in ToSet(current_finalizers)
      BY <1>1, <1>6 DEF remove_finalizer
    <3>2. current_finalizers \in Seq(Others \cup {Mine})
      BY <3>1 DEF current_finalizers, Object
    <3>3. \E i \in 1 .. Len(current_finalizers) : current_finalizers[i] = Mine
      BY <3>1, <3>2 DEF ToSet
    <3> QED  BY <3>3 DEF index
  <2>4. /\ objects[k].finalizers \in Seq(Others \cup {Mine})
        /\ index \in DOMAIN objects[k].finalizers
    BY <2>1, <2>2, <2>3 DEF Object
  <2> DEFINE fs == RemoveAt(objects[k].finalizers, index)
             new == [objects[k] EXCEPT !.finalizers = fs]
  <2>5. /\ fs \in Seq(Others \cup {Mine})
        /\ \A x \in ToSet(objects[k].finalizers) : x # Mine => x \in ToSet(fs)
    BY <2>1, <2>4, RemoveAtKeeps
  <2>6. Put(k, new)
    BY <2>1
  <2> HIDE DEF fs
  <2>7. /\ new \in Object /\ new.uid = objects[k].uid
        /\ new.labels = objects[k].labels /\ new.finalizers = fs
        /\ new.deleting = objects[k].deleting
    BY <2>2, <2>5 DEF Object
  <2>8. \A f \in Others : f \in ToSet(objects[k].finalizers) => f \in ToSet(fs)
    BY <2>5, ApiAssumption
  <2> HIDE DEF new, k
  <2>9. HeldStep
    BY <2>1, <2>2, <2>6, <2>7, <2>8, EditKeeps
  <2> QED  BY <1>3, <2>1, <2>9
<1>7. CASE PatchFails
  <2>1. (CHOOSE l \in Keys : TRUE) \in Keys
    BY <1>1
  <2>2. Typed'
    BY <1>7, <2>1 DEF PatchFails, NoCopy
  <2> QED  BY <1>7, <2>2, QuietKeeps DEF PatchFails, api
<1>8. CASE remove_finalizers
  <2>1. PICK l \in Live :
          /\ Put(l, [objects[l] EXCEPT !.finalizers = <<>>])
          /\ held' = {m \in held : m.uid # objects[l].uid \/ m.sort # "finalizer"}
    BY <1>8 DEF remove_finalizers
  <2>2. objects[l] \in Object /\ l \in Keys /\ Exists(l)
    BY LiveObject DEF Live
  <2> DEFINE fs == <<>>
             new == [objects[l] EXCEPT !.finalizers = fs]
  <2>3. fs \in Seq(Others \cup {Mine}) /\ Put(l, new)
    BY <2>1
  <2> HIDE DEF fs
  <2>4. /\ new \in Object /\ new.uid = objects[l].uid /\ new.labels = objects[l].labels
        /\ new.deleting = objects[l].deleting
    BY <2>2, <2>3 DEF Object
  <2> HIDE DEF new
  <2>5. ASSUME NEW m \in held', m.uid = new.uid PROVE Marked(m, new)
    <3>1. m \in held /\ m.sort = "label"
      BY <2>1, <2>4, <2>5 DEF HeldInv, ObjectsOK, Mark
    <3>2. Marked(m, objects[l])
      BY <2>4, <2>5, <3>1 DEF HeldInv, MarksKept
    <3> QED  BY <2>4, <3>1, <3>2 DEF Marked
  <2>6. Honours(l, new)
    BY <2>1, <2>2, <2>4, <2>5 DEF Honours, HeldInv, ObjectsOK
  <2>7. HeldStep
    BY <2>2, <2>3, <2>6, PutKeeps
  <2> QED  BY <1>8, <2>7 DEF remove_finalizers
<1> QED  BY <1>4, <1>5, <1>6, <1>7, <1>8 DEF FinalizersNext

\* gc_resources.
ToDoOK == todo \subseteq [key : InScope(scope), uid : orphans]

\* The key a delete goes to is the key of the listed object.
LEMMA DeletesInPlace ==
  ASSUME ToDoOK, NEW o \in todo
  PROVE  /\ [o.key EXCEPT !.ns = object_api(@)] = o.key
         /\ o.key \in InScope(scope) /\ o.key \in Keys /\ o.uid \in orphans
<1>1. o.key \in InScope(scope) /\ o.uid \in orphans
  BY DEF ToDoOK
<1>2. o.key \in Keys /\ scope \in {"all", o.key.ns}
  BY <1>1 DEF InScope
<1>3. object_api(o.key.ns) = o.key.ns
  BY <1>2 DEF object_api
<1>4. o.key = [ns |-> o.key.ns, name |-> o.key.name]
  BY <1>2, ApiAssumption
<1>5. [o.key EXCEPT !.ns = o.key.ns] = o.key
  BY <1>4
<1> QED  BY <1>1, <1>2, <1>3, <1>5

\* What a delete may change.
Deleted(o) ==
  \/ UNCHANGED <<objects, clock, stream>>
  \/ /\ Exists(o.key) /\ objects[o.key].uid = o.uid
     /\ Terminate(o.key)

LEMMA GcSteps ==
  ASSUME ToDoOK, GcNext
  PROVE  /\ held' = held
         /\ UNCHANGED <<objects, clock, stream>> \/ \E o \in todo : Deleted(o)
         /\ ToDoOK'
<1>1. CASE List
  <2>1. UNCHANGED <<objects, clock, stream, held>>
    BY <1>1 DEF List
  <2>2. \A o \in todo' : o \in [key : InScope(scope'), uid : {d.uid : d \in todo'}]
    <3>1. PICK ls \in SUBSET Keys :
            /\ ls \subseteq InScope(scope')
            /\ todo' = {[key |-> k, uid |-> objects[k].uid] : k \in ls}
      <4>1. PICK s \in {"all"} \cup {k.ns : k \in Keys}, desired \in SUBSET Keys :
              /\ scope' = s
              /\ todo' = {[key |-> k, uid |-> objects[k].uid] :
                            k \in {l \in Live \cap InScope(s) :
                                     /\ Owner \in objects[l].labels
                                     /\ l \notin desired
                                     /\ ~objects[l].deleting}}
        BY <1>1 DEF List
      <4> DEFINE ls == {l \in Live \cap InScope(s) :
                          /\ Owner \in objects[l].labels
                          /\ l \notin desired
                          /\ ~objects[l].deleting}
      <4>2. ls \in SUBSET Keys /\ ls \subseteq InScope(scope')
        BY <4>1 DEF Live
      <4> QED  BY <4>1, <4>2
    <3>2. ASSUME NEW o \in todo'
          PROVE  o \in [key : InScope(scope'), uid : {d.uid : d \in todo'}]
      <4>1. PICK k \in ls : o = [key |-> k, uid |-> objects[k].uid]
        BY <3>1, <3>2
      <4> QED  BY <3>1, <3>2, <4>1
    <3> QED  BY <3>2
  <2>3. orphans' = {o.uid : o \in todo'}
    BY <1>1 DEF List
  <2>4. ToDoOK'
    BY <2>2, <2>3 DEF ToDoOK, InScope
  <2> QED  BY <2>1, <2>4
<1>2. CASE DeleteNext
  <2>1. PICK o \in todo :
          /\ Delete([o.key EXCEPT !.ns = object_api(@)], o.uid)
          /\ todo' = todo \ {o}
    BY <1>2 DEF DeleteNext
  <2>2. Delete(o.key, o.uid)
    BY <2>1, DeletesInPlace
  <2>3. Deleted(o)
    BY <2>2 DEF Delete, Deleted
  <2>4. held' = held /\ scope' = scope /\ orphans' = orphans
    BY <1>2 DEF DeleteNext
  <2>5. ToDoOK'
    BY <2>1, <2>4 DEF ToDoOK, InScope
  <2> QED  BY <2>3, <2>4, <2>5
<1>3. CASE DeleteFails
  <2>1. PICK o \in todo :
          \/ Delete([o.key EXCEPT !.ns = object_api(@)], o.uid)
          \/ UNCHANGED <<objects, clock, stream>>
    BY <1>3 DEF DeleteFails
  <2>2. Delete(o.key, o.uid) \/ UNCHANGED <<objects, clock, stream>>
    BY <2>1, DeletesInPlace
  <2>3. Deleted(o)
    BY <2>2 DEF Delete, Deleted
  <2>4. held' = held /\ todo' = {}
    BY <1>3 DEF DeleteFails
  <2>5. ToDoOK'
    BY <2>4 DEF ToDoOK
  <2> QED  BY <2>3, <2>4, <2>5
<1>4. CASE GcDone
  BY <1>4 DEF GcDone, api, ToDoOK, InScope
<1> QED  BY <1>1, <1>2, <1>3, <1>4 DEF GcNext

LEMMA GcKeeps == ASSUME HeldInv, ToDoOK, GcNext PROVE HeldStep /\ ToDoOK'
<1>1. held' = held /\ ToDoOK'
  BY GcSteps
<1>2. CASE UNCHANGED <<objects, clock, stream>>
  BY <1>1, <1>2, QuietKeeps
<1>3. CASE \E o \in todo : Deleted(o)
  <2>1. PICK o \in todo : Deleted(o)
    BY <1>3
  <2>2. CASE UNCHANGED <<objects, clock, stream>>
    BY <1>1, <2>2, QuietKeeps
  <2>3. CASE Exists(o.key) /\ Terminate(o.key)
    <3>1. o.key \in Live
      BY <2>3, DeletesInPlace DEF Live
    <3> QED  BY <1>1, <2>3, <3>1, TerminateKeeps
  <2> QED  BY <1>1, <2>1, <2>2, <2>3 DEF Deleted
<1> QED  BY <1>1, <1>2, <1>3, GcSteps

\* The resource helpers.
LEMMA ApplyKeeps ==
  ASSUME HeldInv, place \in Keys, Put(place, Applied(place)), held' = held
  PROVE  HeldStep
<1>1. CASE Exists(place)
  <2>1. place \in Live /\ objects[place] \in Object
    BY <1>1, LiveObject DEF Live
  <2> DEFINE new == Applied(place)
  <2>2. /\ new \in Object /\ new.uid = objects[place].uid
        /\ new.labels = objects[place].labels \cup {Owner}
        /\ new.finalizers = objects[place].finalizers
        /\ new.deleting = objects[place].deleting
    BY <1>1, <2>1, WaitAssumption DEF Applied, Object
  <2> HIDE DEF new
  <2>3. HeldStep
    BY <2>1, <2>2, EditKeeps DEF new
  <2> QED  BY <2>3
<1>2. CASE ~Exists(place)
  <2>1. Put(place, New({Owner}, Want)) /\ Want \in Data
    BY <1>2, WaitAssumption DEF Applied
  <2>2. {Owner} \in SUBSET (Others \cup {Owner})
    OBVIOUS
  <2> QED  BY <1>2, <2>1, <2>2, CreateKeeps
<1> QED  BY <1>1, <1>2

LEMMA RelabelKeeps ==
  ASSUME HeldInv, place \in Keys, NEW new \in SUBSET {Owner}, Relabel(new)
  PROVE  HeldStep
<1>1. CASE Exists(place)
  <2>1. place \in Live /\ objects[place] \in Object
    BY <1>1, LiveObject DEF Live
  <2> DEFINE ls == patch_metadata(objects[place].labels, new)
             o == [objects[place] EXCEPT !.labels = ls]
  <2>2. ls \in SUBSET (Others \cup {Owner})
    BY <2>1 DEF patch_metadata, Object
  <2>3. \A f \in Others : f \in objects[place].labels => f \in ls
    BY ApiAssumption DEF patch_metadata
  <2>4. Put(place, o) /\ held' = held
    BY <1>1 DEF Relabel
  <2> HIDE DEF ls
  <2>5. /\ o \in Object /\ o.uid = objects[place].uid
        /\ o.labels = ls /\ o.finalizers = objects[place].finalizers
        /\ o.deleting = objects[place].deleting
    BY <2>1, <2>2 DEF Object
  <2> HIDE DEF o
  <2> QED  BY <2>1, <2>3, <2>4, <2>5, EditKeeps
<1>2. CASE ~Exists(place)
  <2>1. UNCHANGED <<objects, clock, held>>
    BY <1>2 DEF Relabel
  <2> QED  BY <2>1, QuietKeeps
<1> QED  BY <1>1, <1>2

LEMMA ResourcesKeep ==
  ASSUME HeldInv, place \in Keys, live_rv \in 0 .. clock, ResourcesNext
  PROVE  HeldStep /\ place' \in Keys /\ live_rv' \in 0 .. clock'
<1>1. clock \in Nat
  BY DEF HeldInv, ObjectsOK
<1>2. ASSUME HeldStep, place' = place, live_rv' \in {0, live_rv}
      PROVE  place' \in Keys /\ live_rv' \in 0 .. clock'
  <2>1. clock' \in Nat /\ clock <= clock'
    BY <1>2 DEF HeldStep, HeldInv, ObjectsOK
  <2> QED  BY <1>1, <1>2, <2>1
<1>3. \A r : Return(r) => place' = place /\ live_rv' \in {0, live_rv}
  BY DEF Return
<1>4. ASSUME held' = held,
             Put(place, Applied(place)) \/ UNCHANGED <<objects, clock, stream>>
      PROVE  HeldStep
  BY <1>4, ApplyKeeps, QuietKeeps
<1>5. CASE apply_resource \/ EnsureApply
  <2>1. /\ held' = held
        /\ Put(place, Applied(place)) \/ UNCHANGED <<objects, clock, stream>>
    BY <1>5 DEF apply_resource, EnsureApply, Served
  <2>2. \E r : Return(r)
    BY <1>5 DEF apply_resource, EnsureApply
  <2> QED  BY <1>2, <1>3, <1>4, <2>1, <2>2
<1>6. CASE delete_resource
  <2>1. /\ held' = held
        /\ \/ Exists(place) /\ Terminate(place)
           \/ UNCHANGED <<objects, clock, stream>>
    BY <1>6 DEF delete_resource, Served
  <2>2. \E r : Return(r)
    BY <1>6 DEF delete_resource
  <2>3. Exists(place) => place \in Live
    BY DEF Live
  <2>4. HeldStep
    BY <2>1, <2>3, TerminateKeeps, QuietKeeps
  <2> QED  BY <1>2, <1>3, <2>2, <2>4
<1>7. CASE patch_labels \/ remove_labels
  <2>1. PICK new \in SUBSET {Owner} : Relabel(new)
    BY <1>7 DEF patch_labels, remove_labels
  <2>2. HeldStep
    BY <2>1, RelabelKeeps
  <2>3. \E r : Return(r)
    BY <2>1 DEF Relabel
  <2> QED  BY <1>2, <1>3, <2>2, <2>3
<1>8. CASE EnsureGet
  <2>1. objects' = objects /\ clock' = clock /\ held' = held
    BY <1>8 DEF EnsureGet
  <2>2. HeldStep
    BY <2>1, QuietKeeps
  <2>3. place' = place /\ live_rv' \in {0, live_rv, objects[place].rv}
    BY <1>3, <1>8 DEF EnsureGet, Goto
  <2>4. objects[place].rv \in 0 .. clock
    <3>1. CASE place \in Live
      BY <3>1 DEF HeldInv, NumbersOK
    <3>2. CASE place \notin Live
      BY <1>1, <3>2 DEF Live, Exists, Absent
    <3> QED  BY <3>1, <3>2
  <2> QED  BY <1>1, <2>1, <2>2, <2>3, <2>4
<1>9. CASE StartWait \/ Poll \/ PollFails \/ Wake
  <2>1. UNCHANGED <<objects, clock, held>>
    BY <1>9 DEF StartWait, Poll, PollFails, Wake, api
  <2>2. place' = place /\ live_rv' \in {0, live_rv}
    BY <1>3, <1>9 DEF StartWait, Poll, PollFails, Wake, Sleep, SleepAfterError
  <2> QED  BY <1>2, <2>1, <2>2, QuietKeeps
<1> QED  BY <1>5, <1>6, <1>7, <1>8, <1>9 DEF ResourcesNext

-----------------------------------------------------------------------------
(***************************************************************************)
(* The specification.                                                      *)
(***************************************************************************)
HelpersInv ==
  /\ HeldInv
  /\ copy \in [key : Keys, object : Object \cup {Absent}]
  /\ ToDoOK
  /\ place \in Keys
  /\ live_rv \in 0 .. clock

LEMMA InitInv == Init => HelpersInv
<1> SUFFICES ASSUME Init PROVE HelpersInv
  OBVIOUS
<1> USE DEF Init, InitApi, InitFinalizers, InitGc, InitResources
<1>1. Live = {}
  BY DEF Live, Exists
<1>2. HeldInv
  BY <1>1 DEF HeldInv, ObjectsOK, NumbersOK, MarksKept
<1>3. place \in Keys /\ (CHOOSE k \in Keys : TRUE) \in Keys
  OBVIOUS
<1>4. copy \in [key : Keys, object : Object \cup {Absent}]
  BY <1>3 DEF NoCopy
<1> QED  BY <1>2, <1>3, <1>4 DEF HelpersInv, ToDoOK

LEMMA StepInv == HelpersInv /\ [Next]_vars => HelpersInv' /\ HeldStep
<1> SUFFICES ASSUME HelpersInv, [Next]_vars PROVE HelpersInv' /\ HeldStep
  OBVIOUS
<1> USE DEF HelpersInv
<1>1. ASSUME HeldStep, UNCHANGED live_rv PROVE live_rv' \in 0 .. clock'
  <2>1. clock \in Nat /\ clock' \in Nat /\ clock <= clock'
    BY <1>1 DEF HeldStep, HeldInv, ObjectsOK
  <2> QED  BY <1>1, <2>1
<1>2. UNCHANGED gcVars => ToDoOK'
  BY DEF gcVars, ToDoOK, InScope
<1>3. UNCHANGED resourceVars => place' = place /\ live_rv' = live_rv
  BY DEF resourceVars
<1>4. CASE Outsiders
  <2>1. HeldStep
    BY <1>4, ApiKeeps DEF Outsiders
  <2> QED  BY <1>1, <1>2, <1>3, <1>4, <2>1 DEF Outsiders, HeldStep
<1>5. CASE FinalizersStep
  <2>1. HeldStep /\ copy' \in [key : Keys, object : Object \cup {Absent}]
    BY <1>5, FinalizersKeep DEF FinalizersStep
  <2> QED  BY <1>1, <1>2, <1>3, <1>5, <2>1 DEF FinalizersStep, HeldStep
<1>6. CASE GcStep
  <2>1. HeldStep /\ ToDoOK'
    BY <1>6, GcKeeps DEF GcStep
  <2> QED  BY <1>1, <1>3, <1>6, <2>1 DEF GcStep, HeldStep
<1>7. CASE ResourcesStep
  <2>1. HeldStep /\ place' \in Keys /\ live_rv' \in 0 .. clock'
    BY <1>7, ResourcesKeep DEF ResourcesStep
  <2> QED  BY <1>2, <1>7, <2>1 DEF ResourcesStep, HeldStep
<1>8. CASE WatchersStep
  <2>1. UNCHANGED <<objects, clock, held>>
    BY <1>8 DEF WatchersStep, WatchersNext, StartWatch, TakeEvent, Send, WatchFails,
                Receive, DropReceiver, api
  <2>2. HeldStep
    BY <2>1, QuietKeeps
  <2> QED  BY <1>1, <1>2, <1>3, <1>8, <2>2 DEF WatchersStep, HeldStep
<1>9. CASE UNCHANGED vars
  <2>1. HeldStep
    BY <1>9, QuietKeeps DEF vars, api
  <2> QED  BY <1>1, <1>2, <1>3, <1>9, <2>1 DEF vars, HeldStep
<1> QED  BY <1>4, <1>5, <1>6, <1>7, <1>8, <1>9 DEF Next

LEMMA InvAlways == Spec => []HelpersInv
  BY InitInv, StepInv, PTL DEF Spec

\* No finalizer or label of somebody else is lost, whatever call of a helper is
\* made from however old a copy (finalizers.rs:91-97, 148-155, resources.rs:601-604).
THEOREM OthersAreKept == Spec => []HeldKept
<1>1. HelpersInv => HeldKept
  BY InvImpliesHeldKept DEF HelpersInv
<1> QED  BY <1>1, InvAlways, PTL

\* gc_resources touches only what it has listed as an orphan, by uid (gc.rs:99-116).
THEOREM SparesTheRest == Spec => GcSpares
<1>1. ASSUME HelpersInv, Next, todo' # todo,
             NEW k \in Keys, objects'[k] # objects[k]
      PROVE  k \in InScope(scope) /\ objects[k].uid \in orphans
  <2>1. GcNext
    BY <1>1 DEF Next, Outsiders, FinalizersStep, GcStep, ResourcesStep, WatchersStep, gcVars
  <2>2. PICK o \in todo : /\ Exists(o.key) /\ objects[o.key].uid = o.uid
                          /\ Terminate(o.key)
    BY <1>1, <2>1, GcSteps DEF Deleted, HelpersInv
  <2>3. o.key \in InScope(scope) /\ o.key \in Keys /\ o.uid \in orphans
    BY <1>1, DeletesInPlace DEF HelpersInv
  <2>4. k = o.key
    BY <1>1, <2>2, <2>3 DEF Terminate, Put, HelpersInv, HeldInv, ObjectsOK
  <2> QED  BY <2>2, <2>3, <2>4
<1>2. HelpersInv /\ [Next]_vars =>
        [todo' # todo =>
           \A k \in Keys : objects'[k] # objects[k] =>
             k \in InScope(scope) /\ objects[k].uid \in orphans]_vars
  BY <1>1
<1> QED  BY <1>2, InvAlways, PTL DEF Spec, GcSpares

\* Unchanged means that nothing was written and the resource is as wanted
\* (resources.rs:29-30, 87-114).
THEOREM UnchangedIsTrue == Spec => EnsureReports
<1>1. ASSUME HelpersInv, Next, task = "ensure_resource", result' = "Unchanged",
             task' = "idle"
      PROVE  clock' = clock /\ Exists(place) /\ objects[place].data = Want
  <2>1. ResourcesNext
    BY <1>1 DEF Next, Outsiders, FinalizersStep, GcStep, ResourcesStep, WatchersStep,
                resourceVars
  <2>2. EnsureApply
    BY <1>1, <2>1 DEF ResourcesNext, apply_resource, delete_resource, patch_labels,
         remove_labels, Relabel, EnsureGet, StartWait, Poll, PollFails, Wake, Polling
  <2>3. Put(place, Applied(place)) /\ Outcome(live_rv, objects'[place].rv) = "Unchanged"
    BY <1>1, <2>2 DEF EnsureApply, Return
  <2>4. live_rv # 0 /\ objects'[place].rv = live_rv
    BY <2>3 DEF Outcome
  <2>5. place \in Keys /\ live_rv \in 0 .. clock /\ clock \in Nat
        /\ objects \in [Keys -> Object \cup {Absent}]
    BY <1>1 DEF HelpersInv, HeldInv, ObjectsOK
  <2>6. Applied(place) \in Object
    <3>1. CASE Exists(place)
      <4>1. objects[place] \in Object
        BY <2>5, <3>1 DEF Exists
      <4> QED  BY <3>1, <4>1, WaitAssumption DEF Applied, Object
    <3>2. CASE ~Exists(place)
      BY <2>5, <3>2, WaitAssumption DEF Applied, New, Object
    <3> QED  BY <3>1, <3>2
  <2>7. Applied(place) = objects[place]
    <3>1. SUFFICES ASSUME Applied(place) # objects[place] PROVE FALSE
      OBVIOUS
    <3> DEFINE new == Applied(place)
               o == IF new.deleting /\ new.finalizers = <<>>
                    THEN Absent ELSE [new EXCEPT !.rv = clock + 1]
    <3>2. objects' = [objects EXCEPT ![place] = o]
      BY <2>3, <3>1 DEF Put
    <3>3. o.rv \in {0, clock + 1}
      BY <2>6 DEF Object, Absent
    <3> HIDE DEF o
    <3>4. objects'[place] = o
      BY <2>5, <3>2
    <3> QED  BY <2>4, <2>5, <3>3, <3>4
  <2>8. clock' = clock
    BY <2>3, <2>7 DEF Put
  <2>9. Exists(place) /\ objects[place] \in Object
    <3>1. ~Exists(place) => Applied(place).uid = clock + 1
      BY DEF Applied, New
    <3>2. ~Exists(place) => objects[place].uid = 0
      BY DEF Exists, Absent
    <3>3. Exists(place)
      BY <2>5, <2>7, <3>1, <3>2
    <3> QED  BY <2>5, <3>3 DEF Exists
  <2>10. Applied(place).data = Want
    BY <2>9 DEF Applied, Object
  <2> QED  BY <2>7, <2>8, <2>9, <2>10
<1>2. HelpersInv /\ [Next]_vars =>
        [task = "ensure_resource" /\ result' = "Unchanged" /\ task' = "idle" =>
           /\ clock' = clock
           /\ Exists(place) /\ objects[place].data = Want]_vars
  BY <1>1
<1> QED  BY <1>2, InvAlways, PTL DEF Spec, EnsureReports

-----------------------------------------------------------------------------
(***************************************************************************)
(* GcThorough.  What is not on the list any more is gone or terminating,    *)
(* and stays so: a uid does not come back.                                  *)
(***************************************************************************)
Pending(k) == gc = "deleting" /\ [key |-> k, uid |-> objects[k].uid] \in todo

OrphansInv ==
  /\ \A u \in orphans : u \in 0 .. clock
  /\ gc \in {"deleting", "Ok"} =>
       \A k \in Live : objects[k].uid \in orphans => objects[k].deleting \/ Pending(k)

\* The orphans are those of the list, and no other object has their uids.
LEMMA ListsOrphans ==
  ASSUME HelpersInv, List
  PROVE  OrphansInv'
<1>1. objects' = objects /\ clock' = clock /\ gc' = "deleting"
      /\ orphans' = {o.uid : o \in todo'}
  BY DEF List
<1>2. PICK ls \in SUBSET Live : todo' = {[key |-> k, uid |-> objects[k].uid] : k \in ls}
  <2>1. PICK s \in {"all"} \cup {k.ns : k \in Keys}, desired \in SUBSET Keys :
          todo' = {[key |-> k, uid |-> objects[k].uid] :
                     k \in {l \in Live \cap InScope(s) :
                              /\ Owner \in objects[l].labels
                              /\ l \notin desired
                              /\ ~objects[l].deleting}}
    BY DEF List
  <2> QED  BY <2>1
<1>3. Live' = Live
  BY <1>1 DEF Live, Exists
<1>4. ASSUME NEW u \in orphans'
      PROVE  /\ u \in 0 .. clock
             /\ \A k \in Live : objects[k].uid = u =>
                  [key |-> k, uid |-> objects[k].uid] \in todo'
  <2>1. PICK o \in todo' : u = o.uid
    BY <1>1, <1>4
  <2>2. PICK k \in ls : o = [key |-> k, uid |-> objects[k].uid]
    BY <1>2, <2>1
  <2>3. objects[k].uid = u /\ k \in Live /\ [key |-> k, uid |-> u] \in todo'
    BY <2>1, <2>2
  <2>4. u \in 0 .. clock
    <3>1. objects[k].uid \in 1 .. clock /\ clock \in Nat
      BY <2>3 DEF HelpersInv, HeldInv, NumbersOK, ObjectsOK
    <3> QED  BY <2>3, <3>1
  <2>5. \A l \in Live : objects[l].uid = u => l = k
    BY <2>3 DEF HelpersInv, HeldInv, NumbersOK
  <2> QED  BY <2>3, <2>4, <2>5
<1> QED  BY <1>1, <1>3, <1>4 DEF OrphansInv, Pending

LEMMA OrphansStep == HelpersInv /\ OrphansInv /\ [Next]_vars => OrphansInv'
<1> SUFFICES ASSUME HelpersInv, OrphansInv, [Next]_vars PROVE OrphansInv'
  OBVIOUS
<1>1. HeldStep /\ clock \in Nat /\ clock' \in Nat /\ clock <= clock' /\ Continues
  BY StepInv DEF HelpersInv, HeldStep, HeldInv, ObjectsOK
<1>2. ASSUME orphans' = orphans PROVE \A u \in orphans' : u \in 0 .. clock'
  <2>1. \A u \in orphans : u \in 0 .. clock
    BY DEF OrphansInv
  <2> QED  BY <1>1, <1>2, <2>1
\* An orphan that is still there was there, and is terminating if it was.
<1>3. ASSUME orphans' = orphans, NEW k \in Live', objects'[k].uid \in orphans
      PROVE  /\ k \in Live /\ objects'[k].uid = objects[k].uid
             /\ objects[k].deleting => objects'[k].deleting
  <2>1. objects'[k].uid # clock + 1
    <3>1. objects'[k].uid \in 0 .. clock
      BY <1>3 DEF OrphansInv
    <3> QED  BY <1>1, <3>1
  <2> QED  BY <1>1, <1>3, <2>1 DEF Continues
<1>4. CASE UNCHANGED gcVars
  <2>1. gc' = gc /\ todo' = todo /\ orphans' = orphans
    BY <1>4 DEF gcVars
  <2>2. ASSUME gc \in {"deleting", "Ok"}, NEW k \in Live', objects'[k].uid \in orphans
        PROVE  objects'[k].deleting \/ Pending(k)'
    <3>1. /\ k \in Live /\ objects'[k].uid = objects[k].uid
          /\ objects[k].deleting => objects'[k].deleting
      BY <1>3, <2>1, <2>2
    <3>2. objects[k].deleting \/ Pending(k)
      BY <2>2, <3>1 DEF OrphansInv
    <3> QED  BY <2>1, <3>1, <3>2 DEF Pending
  <2> QED  BY <1>2, <2>1, <2>2 DEF OrphansInv
<1>5. CASE List
  BY <1>5, ListsOrphans
<1>6. CASE DeleteNext
  <2>1. PICK o \in todo :
          /\ Delete([o.key EXCEPT !.ns = object_api(@)], o.uid)
          /\ todo' = todo \ {o}
    BY <1>6 DEF DeleteNext
  <2>2. Delete(o.key, o.uid) /\ o.key \in Keys
    BY <2>1, DeletesInPlace DEF HelpersInv
  <2>3. gc = "deleting" /\ gc' = gc /\ orphans' = orphans
    BY <1>6 DEF DeleteNext
  <2>4. ASSUME NEW k \in Live', objects'[k].uid \in orphans
        PROVE  objects'[k].deleting \/ Pending(k)'
    <3>1. /\ k \in Live /\ objects'[k].uid = objects[k].uid
          /\ objects[k].deleting => objects'[k].deleting
      BY <1>3, <2>3, <2>4
    <3>2. objects[k].deleting \/ Pending(k)
      BY <2>3, <2>4, <3>1 DEF OrphansInv
    <3>3. CASE o = [key |-> k, uid |-> objects[k].uid]
      <4>1. Terminate(k)
        BY <2>2, <3>1, <3>3 DEF Delete, Live
      <4>2. objects[k] \in Object /\ k \in Keys /\ objects \in [Keys -> Object \cup {Absent}]
        BY <3>1, LiveObject DEF HelpersInv, HeldInv, ObjectsOK
      <4> DEFINE new == [objects[k] EXCEPT !.deleting = TRUE]
                 p == IF new.deleting /\ new.finalizers = <<>>
                      THEN Absent ELSE [new EXCEPT !.rv = clock + 1]
      <4>3. new \in Object /\ new.deleting
        BY <4>2 DEF Object
      <4>4. CASE new = objects[k]
        BY <3>1, <4>3, <4>4
      <4>5. CASE new # objects[k]
        <5>1. objects' = [objects EXCEPT ![k] = p]
          BY <4>1, <4>5 DEF Terminate, Put
        <5>2. p = Absent \/ p.deleting
          BY <4>3 DEF Object
        <5> HIDE DEF p
        <5>3. objects'[k] = p
          BY <4>2, <5>1
        <5> QED  BY <2>4, <5>2, <5>3 DEF Live, Exists
      <4> QED  BY <4>4, <4>5
    <3>4. CASE o # [key |-> k, uid |-> objects[k].uid]
      BY <2>1, <2>3, <3>1, <3>2, <3>4 DEF Pending
    <3> QED  BY <3>3, <3>4
  <2> QED  BY <1>2, <2>3, <2>4 DEF OrphansInv
<1>7. CASE DeleteFails
  <2>1. gc' = "Err" /\ orphans' = orphans
    BY <1>7 DEF DeleteFails
  <2> QED  BY <1>2, <2>1 DEF OrphansInv
<1>8. CASE GcDone
  <2>1. gc = "deleting" /\ todo = {} /\ orphans' = orphans
    BY <1>8 DEF GcDone
  <2>2. ASSUME NEW k \in Live', objects'[k].uid \in orphans PROVE objects'[k].deleting
    <3>1. /\ k \in Live /\ objects'[k].uid = objects[k].uid
          /\ objects[k].deleting => objects'[k].deleting
      BY <1>3, <2>1, <2>2
    <3>2. objects[k].deleting
      BY <2>1, <2>2, <3>1 DEF OrphansInv, Pending
    <3> QED  BY <3>1, <3>2
  <2> QED  BY <1>2, <2>1, <2>2 DEF OrphansInv
<1>9. \/ UNCHANGED gcVars
      \/ GcNext
  BY DEF Next, Outsiders, FinalizersStep, GcStep, ResourcesStep, WatchersStep, vars
<1> QED  BY <1>4, <1>5, <1>6, <1>7, <1>8, <1>9 DEF GcNext

\* gc_resources returns Ok only when all it meant to delete is gone or
\* terminating (gc.rs:99-117).
THEOREM NoOrphanIsLeft == Spec => []GcThorough
<1>1. Init => OrphansInv
  BY DEF Init, InitGc, OrphansInv
<1>2. OrphansInv => GcThorough
  BY DEF OrphansInv, GcThorough, Pending
<1> QED  BY <1>1, <1>2, InvAlways, OrphansStep, PTL DEF Spec
-----------------------------------------------------------------------------
(***************************************************************************)
(* TypeOK.  Every write of a helper or an outsider is one Put that leaves  *)
(* the list of finalizers alone, empties it, takes one entry out or        *)
(* appends one that is not there yet.                                      *)
(***************************************************************************)
Unique(s) == \A i, j \in DOMAIN s : s[i] = s[j] => i = j

Listed(fs, gs) ==
  \/ gs = fs \/ gs = <<>>
  \/ \E i \in DOMAIN fs : gs = RemoveAt(fs, i)
  \/ \E f \in (Others \cup {Mine}) \ ToSet(fs) : gs = Append(fs, f)

Writes(k, new) ==
  /\ Put(k, new)
  /\ IF Exists(k) THEN Listed(objects[k].finalizers, new.finalizers)
                  ELSE new.finalizers = <<>>

Untouched == UNCHANGED <<objects, clock, stream>>

OneWrite ==
  /\ watched' = watched
  /\ Untouched \/ \E k \in Keys, new \in Object : Writes(k, new)

\* An edit of an object leaves its other fields alone.
LEMMA Edits ==
  ASSUME HeldInv, NEW k \in Live
  PROVE  /\ objects[k] \in Object /\ k \in Keys /\ Exists(k)
         /\ \A d \in Data : /\ [objects[k] EXCEPT !.data = d] \in Object
                            /\ [objects[k] EXCEPT !.data = d].finalizers = objects[k].finalizers
         /\ \A ls \in SUBSET (Others \cup {Owner}) :
              /\ [objects[k] EXCEPT !.labels = ls] \in Object
              /\ [objects[k] EXCEPT !.labels = ls].finalizers = objects[k].finalizers
         /\ [objects[k] EXCEPT !.deleting = TRUE] \in Object
         /\ [objects[k] EXCEPT !.deleting = TRUE].finalizers = objects[k].finalizers
         /\ \A fs \in Seq(Others \cup {Mine}) :
              /\ [objects[k] EXCEPT !.finalizers = fs] \in Object
              /\ [objects[k] EXCEPT !.finalizers = fs].finalizers = fs
<1>1. objects[k] \in Object /\ k \in Keys /\ Exists(k)
  BY LiveObject DEF Live
<1> QED BY <1>1 DEF Object

LEMMA CreateWrites ==
  ASSUME HeldInv, NEW k \in Keys, ~Exists(k), NEW labels \in SUBSET (Others \cup {Owner}),
         NEW d \in Data, Put(k, New(labels, d))
  PROVE  \E new \in Object : Writes(k, new)
<1>1. New(labels, d) \in Object /\ New(labels, d).finalizers = <<>>
  BY DEF New, Object, HeldInv, ObjectsOK
<1> QED BY <1>1 DEF Writes

LEMMA TerminateWrites ==
  ASSUME HeldInv, NEW k \in Live, Terminate(k)
  PROVE  k \in Keys /\ \E new \in Object : Writes(k, new)
<1>1. /\ Exists(k) /\ k \in Keys /\ [objects[k] EXCEPT !.deleting = TRUE] \in Object
      /\ [objects[k] EXCEPT !.deleting = TRUE].finalizers = objects[k].finalizers
  BY Edits
<1> QED BY <1>1 DEF Writes, Terminate, Listed

LEMMA ListWrites ==
  ASSUME HeldInv, NEW k \in Live, NEW fs \in Seq(Others \cup {Mine}),
         Listed(objects[k].finalizers, fs), Put(k, [objects[k] EXCEPT !.finalizers = fs])
  PROVE  k \in Keys /\ \E new \in Object : Writes(k, new)
<1>1. /\ Exists(k) /\ k \in Keys /\ [objects[k] EXCEPT !.finalizers = fs] \in Object
      /\ [objects[k] EXCEPT !.finalizers = fs].finalizers = fs
  BY Edits
<1> QED BY <1>1 DEF Writes

LEMMA LabelWrites ==
  ASSUME HeldInv, NEW k \in Live, NEW ls \in SUBSET (Others \cup {Owner}),
         Put(k, [objects[k] EXCEPT !.labels = ls])
  PROVE  k \in Keys /\ \E new \in Object : Writes(k, new)
<1>1. /\ Exists(k) /\ k \in Keys /\ [objects[k] EXCEPT !.labels = ls] \in Object
      /\ [objects[k] EXCEPT !.labels = ls].finalizers = objects[k].finalizers
  BY Edits
<1> QED BY <1>1 DEF Writes, Listed

LEMMA ApiWrites == ASSUME HeldInv, ApiNext PROVE OneWrite
<1>1. watched' = watched
  BY DEF ApiNext, UserCreates, UserEdits, UserDeletes, OtherMarks, OtherUnmarks, Outside
<1>2. CASE UserCreates
  <2>1. PICK k \in Keys, labels \in SUBSET {Owner}, d \in Data :
          ~Exists(k) /\ Put(k, New(labels, d))
    BY <1>2 DEF UserCreates
  <2> QED BY <1>1, <2>1, CreateWrites DEF OneWrite
<1>3. CASE UserEdits
  <2>1. PICK k \in Live :
          \/ \E d \in Data : Put(k, [objects[k] EXCEPT !.data = d])
          \/ Put(k, [objects[k] EXCEPT !.labels =
                       IF Owner \in @ THEN @ \ {Owner} ELSE @ \cup {Owner}])
    BY <1>3 DEF UserEdits
  <2>2. CASE \E d \in Data : Put(k, [objects[k] EXCEPT !.data = d])
    <3>1. PICK d \in Data : Put(k, [objects[k] EXCEPT !.data = d])
      BY <2>2
    <3>2. /\ k \in Keys /\ Exists(k) /\ [objects[k] EXCEPT !.data = d] \in Object
          /\ [objects[k] EXCEPT !.data = d].finalizers = objects[k].finalizers
      BY Edits
    <3> QED BY <1>1, <3>1, <3>2 DEF OneWrite, Writes, Listed
  <2>3. CASE Put(k, [objects[k] EXCEPT !.labels =
                       IF Owner \in @ THEN @ \ {Owner} ELSE @ \cup {Owner}])
    <3>1. (IF Owner \in objects[k].labels
           THEN objects[k].labels \ {Owner} ELSE objects[k].labels \cup {Owner})
            \in SUBSET (Others \cup {Owner})
      BY LiveObject DEF Object
    <3> QED BY <1>1, <2>3, <3>1, LabelWrites DEF OneWrite
  <2> QED BY <2>1, <2>2, <2>3
<1>4. CASE UserDeletes
  BY <1>1, <1>4, TerminateWrites DEF UserDeletes, OneWrite
<1>5. CASE OtherMarks
  <2>1. PICK k \in Live, f \in Others :
          \/ /\ f \notin ToSet(objects[k].finalizers)
             /\ Put(k, [objects[k] EXCEPT !.finalizers = Append(@, f)])
          \/ Put(k, [objects[k] EXCEPT !.labels = @ \cup {f}])
    BY <1>5 DEF OtherMarks
  <2>2. objects[k] \in Object
    BY LiveObject
  <2>3. CASE /\ f \notin ToSet(objects[k].finalizers)
             /\ Put(k, [objects[k] EXCEPT !.finalizers = Append(@, f)])
    <3>1. /\ Append(objects[k].finalizers, f) \in Seq(Others \cup {Mine})
          /\ Listed(objects[k].finalizers, Append(objects[k].finalizers, f))
      BY <2>2, <2>3 DEF Object, Listed
    <3> QED BY <1>1, <2>3, <3>1, ListWrites DEF OneWrite
  <2>4. CASE Put(k, [objects[k] EXCEPT !.labels = @ \cup {f}])
    <3>1. objects[k].labels \cup {f} \in SUBSET (Others \cup {Owner})
      BY <2>2 DEF Object
    <3> QED BY <1>1, <2>4, <3>1, LabelWrites DEF OneWrite
  <2> QED BY <2>1, <2>3, <2>4
<1>6. CASE OtherUnmarks
  <2>1. PICK k \in Live : \E i \in DOMAIN objects[k].finalizers :
          Put(k, [objects[k] EXCEPT !.finalizers = RemoveAt(@, i)])
    BY <1>6 DEF OtherUnmarks
  <2>2. PICK i \in DOMAIN objects[k].finalizers :
          Put(k, [objects[k] EXCEPT !.finalizers = RemoveAt(@, i)])
    BY <2>1
  <2>3. objects[k].finalizers \in Seq(Others \cup {Mine})
    BY LiveObject DEF Object
  <2>4. /\ RemoveAt(objects[k].finalizers, i) \in Seq(Others \cup {Mine})
        /\ Listed(objects[k].finalizers, RemoveAt(objects[k].finalizers, i))
    BY <2>3, RemoveAtKeeps DEF Listed
  <2> QED BY <1>1, <2>2, <2>4, ListWrites DEF OneWrite
<1> QED BY <1>2, <1>3, <1>4, <1>5, <1>6 DEF ApiNext

LEMMA FinalizersWrite ==
  ASSUME HeldInv, copy \in [key : Keys, object : Object \cup {Absent}], FinalizersNext
  PROVE  OneWrite
<1>1. watched' = watched
  BY DEF FinalizersNext, ReadCopy, add_finalizer, remove_finalizer, PatchFails,
         remove_finalizers, Call, api
<1> DEFINE k == copy.key
<1>2. k \in Keys /\ copy.object \in Object \cup {Absent}
  OBVIOUS
<1>3. CASE ReadCopy \/ PatchFails
  BY <1>1, <1>3 DEF ReadCopy, PatchFails, api, OneWrite, Untouched
<1>4. CASE add_finalizer
  <2>1. /\ k \in Live /\ Mine \notin ToSet(objects[k].finalizers)
        /\ Put(k, [objects[k] EXCEPT !.finalizers = Append(@, Mine)])
    BY <1>2, <1>4 DEF add_finalizer, add_finalizer_patch, Live
  <2> HIDE DEF k
  <2>2. objects[k] \in Object
    BY <2>1, LiveObject
  <2>3. /\ Append(objects[k].finalizers, Mine) \in Seq(Others \cup {Mine})
        /\ Listed(objects[k].finalizers, Append(objects[k].finalizers, Mine))
    BY <2>1, <2>2 DEF Object, Listed
  <2> QED BY <1>1, <2>1, <2>3, ListWrites DEF OneWrite
<1>5. CASE remove_finalizer
  <2>1. /\ k \in Live /\ index <= Len(objects[k].finalizers)
        /\ Put(k, [objects[k] EXCEPT !.finalizers = RemoveAt(@, index)])
    BY <1>2, <1>5 DEF remove_finalizer, remove_finalizer_patch, Live
  <2>2. index \in 1 .. Len(current_finalizers)
    <3>1. copy.object \in Object /\ Mine \in ToSet(current_finalizers)
      BY <1>2, <1>5 DEF remove_finalizer
    <3>2. current_finalizers \in Seq(Others \cup {Mine})
      BY <3>1 DEF current_finalizers, Object
    <3>3. \E i \in 1 .. Len(current_finalizers) : current_finalizers[i] = Mine
      BY <3>1, <3>2 DEF ToSet
    <3> QED  BY <3>3 DEF index
  <2> HIDE DEF k
  <2>3. objects[k].finalizers \in Seq(Others \cup {Mine})
    BY <2>1, LiveObject DEF Object
  <2>4. index \in DOMAIN objects[k].finalizers
    BY <2>1, <2>2, <2>3
  <2>5. /\ RemoveAt(objects[k].finalizers, index) \in Seq(Others \cup {Mine})
        /\ Listed(objects[k].finalizers, RemoveAt(objects[k].finalizers, index))
    BY <2>3, <2>4, RemoveAtKeeps DEF Listed
  <2> QED BY <1>1, <2>1, <2>5, ListWrites DEF OneWrite
<1>6. CASE remove_finalizers
  <2>1. PICK l \in Live : Put(l, [objects[l] EXCEPT !.finalizers = <<>>])
    BY <1>6 DEF remove_finalizers
  <2> DEFINE none == <<>>
  <2>2. none \in Seq(Others \cup {Mine})
    OBVIOUS
  <2>3. Listed(objects[l].finalizers, none)
    BY DEF Listed
  <2> QED BY <1>1, <2>1, <2>2, <2>3, ListWrites DEF OneWrite
<1> QED BY <1>3, <1>4, <1>5, <1>6 DEF FinalizersNext

LEMMA GcWrites == ASSUME HeldInv, ToDoOK, GcNext PROVE OneWrite
<1>1. watched' = watched
  BY DEF GcNext, List, DeleteNext, DeleteFails, GcDone, Call, api
<1>2. ASSUME NEW o \in todo, Exists(o.key), Terminate(o.key) PROVE OneWrite
  <2>1. o.key \in Live
    BY <1>2, DeletesInPlace DEF Live
  <2> QED BY <1>1, <1>2, <2>1, TerminateWrites DEF OneWrite
<1> QED BY <1>1, <1>2, GcSteps DEF Deleted, OneWrite, Untouched

LEMMA ResourcesWrite ==
  ASSUME HeldInv, place \in Keys, ResourcesNext PROVE OneWrite
<1>1. watched' = watched
  BY DEF ResourcesNext, apply_resource, delete_resource, patch_labels, remove_labels,
         Relabel, EnsureGet, EnsureApply, StartWait, Poll, PollFails, Wake, Call, api
<1>2. Exists(place) => place \in Live
  BY DEF Live
<1>3. ASSUME Put(place, Applied(place)) PROVE OneWrite
  <2>1. CASE Exists(place)
    <3> DEFINE new == Applied(place)
    <3>1. new \in Object /\ new.finalizers = objects[place].finalizers
      BY <1>2, <2>1, LiveObject, WaitAssumption DEF Applied, Object
    <3> QED BY <1>1, <1>3, <2>1, <3>1 DEF OneWrite, Writes, Listed
  <2>2. CASE ~Exists(place)
    <3>1. Put(place, New({Owner}, Want)) /\ Want \in Data
      BY <1>3, <2>2, WaitAssumption DEF Applied
    <3>2. {Owner} \in SUBSET (Others \cup {Owner})
      OBVIOUS
    <3> QED BY <1>1, <2>2, <3>1, <3>2, CreateWrites DEF OneWrite
  <2> QED BY <2>1, <2>2
<1>4. CASE apply_resource \/ EnsureApply
  BY <1>1, <1>3, <1>4 DEF apply_resource, EnsureApply, Served, OneWrite, Untouched
<1>5. CASE delete_resource
  <2>1. Untouched \/ (Exists(place) /\ Terminate(place))
    BY <1>5 DEF delete_resource, Served, Untouched
  <2> QED BY <1>1, <1>2, <2>1, TerminateWrites DEF OneWrite
<1>6. ASSUME NEW new \in SUBSET {Owner}, Relabel(new) PROVE OneWrite
  <2>1. CASE Exists(place)
    <3> DEFINE ls == patch_metadata(objects[place].labels, new)
    <3>1. ls \in SUBSET (Others \cup {Owner})
      BY <1>2, <2>1, LiveObject DEF patch_metadata, Object
    <3>2. Put(place, [objects[place] EXCEPT !.labels = ls])
      BY <1>6, <2>1 DEF Relabel
    <3> HIDE DEF ls
    <3> QED BY <1>1, <1>2, <2>1, <3>1, <3>2, LabelWrites DEF OneWrite
  <2> QED BY <1>1, <1>6, <2>1 DEF Relabel, OneWrite, Untouched
<1>7. CASE patch_labels \/ remove_labels
  BY <1>6, <1>7 DEF patch_labels, remove_labels
<1>8. CASE EnsureGet \/ StartWait \/ Poll \/ PollFails \/ Wake
  BY <1>1, <1>8 DEF EnsureGet, StartWait, Poll, PollFails, Wake, api, OneWrite, Untouched
<1> QED BY <1>4, <1>5, <1>7, <1>8 DEF ResourcesNext

\* The steps that are not a watch's.
LEMMA HelpersWrite ==
  ASSUME HelpersInv, Outsiders \/ FinalizersStep \/ GcStep \/ ResourcesStep
  PROVE  OneWrite /\ UNCHANGED watcherVars
BY ApiWrites, FinalizersWrite, GcWrites, ResourcesWrite
   DEF HelpersInv, Outsiders, FinalizersStep, GcStep, ResourcesStep
\* SetToSeq enumerates a finite set.
LEMMA Enumerates ==
  ASSUME NEW S, IsFiniteSet(S)
  PROVE  /\ SetToSeq(S) \in Seq(S)
         /\ \A i, j \in DOMAIN SetToSeq(S) : SetToSeq(S)[i] = SetToSeq(S)[j] => i = j
         /\ \A x \in S : \E i \in DOMAIN SetToSeq(S) : SetToSeq(S)[i] = x
<1> DEFINE n == Cardinality(S)
           f == SetToSeq(S)
<1>1. n \in Nat /\ ExistsBijection(1 .. n, S)
  BY FS_CardinalityType
<1>2. PICK g \in [1 .. n -> S] : IsInjective(g)
  BY <1>1 DEF ExistsBijection, Bijection, Injection, IsInjective
<1>3. f \in [1 .. n -> S] /\ IsInjective(f)
  BY <1>2 DEF SetToSeq
<1>4. \A x \in S : \E i \in 1 .. n : f[i] = x
  <2>1. Cardinality(1 .. n) = n /\ IsFiniteSet(1 .. n)
    BY <1>1, FS_Interval
  <2>2. f \in Injection(1 .. n, S)
    BY <1>3 DEF Injection, IsInjective
  <2>3. f \in Surjection(1 .. n, S)
    BY <2>1, <2>2, FS_Injection
  <2> QED BY <2>3 DEF Surjection
<1> HIDE DEF f, n
<1>5. f \in Seq(S) /\ DOMAIN f = 1 .. n
  BY <1>1, <1>3
<1>6. \A i, j \in DOMAIN f : f[i] = f[j] => i = j
  BY <1>3 DEF IsInjective
<1>7. \A x \in S : \E i \in DOMAIN f : f[i] = x
  BY <1>4, <1>5
<1> QED BY <1>5, <1>6, <1>7 DEF f

\* The lists of finalizers hold nothing twice.
UniqueOK == \A k \in Live : Unique(objects[k].finalizers)

LEMMA ListedIsUnique ==
  ASSUME NEW fs \in Seq(Others \cup {Mine}), Unique(fs), NEW gs, Listed(fs, gs)
  PROVE  Unique(gs)
<1>1. CASE gs = fs \/ gs = <<>>
  BY <1>1 DEF Unique
<1>2. CASE \E i \in DOMAIN fs : gs = RemoveAt(fs, i)
  <2>1. PICK i \in DOMAIN fs : gs = RemoveAt(fs, i)
    BY <1>2
  <2>2. /\ gs \in Seq(Others \cup {Mine}) /\ Len(gs) = Len(fs) - 1
        /\ \A j \in 1 .. Len(fs) - 1 : gs[j] = IF j < i THEN fs[j] ELSE fs[j + 1]
        /\ i \in 1 .. Len(fs)
    BY <2>1, RemoveAtKeeps
  <2>3. ASSUME NEW j \in 1 .. Len(fs) - 1, NEW l \in 1 .. Len(fs) - 1, gs[j] = gs[l]
        PROVE  j = l
    <3>1. /\ j \in 1 .. Len(fs) /\ j + 1 \in 1 .. Len(fs)
          /\ l \in 1 .. Len(fs) /\ l + 1 \in 1 .. Len(fs)
          /\ DOMAIN fs = 1 .. Len(fs)
      OBVIOUS
    <3> DEFINE p == IF j < i THEN j ELSE j + 1
               q == IF l < i THEN l ELSE l + 1
    <3>2. p \in DOMAIN fs /\ q \in DOMAIN fs /\ gs[j] = fs[p] /\ gs[l] = fs[q]
      BY <2>2, <3>1
    <3>3. p = q => j = l
      BY <2>2
    <3> HIDE DEF p, q
    <3> QED BY <2>3, <3>2, <3>3 DEF Unique
  <2> QED BY <2>2, <2>3 DEF Unique
<1>3. CASE \E f \in (Others \cup {Mine}) \ ToSet(fs) : gs = Append(fs, f)
  <2>1. PICK f \in (Others \cup {Mine}) \ ToSet(fs) : gs = Append(fs, f)
    BY <1>3
  <2>2. \A i \in DOMAIN fs : fs[i] # f
    BY <2>1 DEF ToSet
  <2> QED BY <2>1, <2>2 DEF Unique
<1> QED BY <1>1, <1>2, <1>3 DEF Listed

\* What one write does: a new version of one object, or its end, and the news
\* of it.
LEMMA WriteEffect ==
  ASSUME HeldInv, HeldInv', NEW k \in Keys, NEW new \in Object, Writes(k, new)
  PROVE  \/ Untouched
         \/ /\ \A l \in Keys \ {k} : objects'[l] = objects[l]
            /\ clock' = clock + 1
            /\ stream' = stream \o News(k, objects'[k])
            /\ \/ objects'[k] = Absent
               \/ /\ objects'[k] \in Object /\ objects'[k].rv = clock'
                  /\ objects'[k].finalizers = new.finalizers
<1> DEFINE o == IF new.deleting /\ new.finalizers = <<>>
                THEN Absent ELSE [new EXCEPT !.rv = clock + 1]
<1> SUFFICES ASSUME new # objects[k]
             PROVE  /\ \A l \in Keys \ {k} : objects'[l] = objects[l]
                    /\ clock' = clock + 1
                    /\ stream' = stream \o News(k, objects'[k])
                    /\ \/ objects'[k] = Absent
                       \/ /\ objects'[k] \in Object /\ objects'[k].rv = clock'
                          /\ objects'[k].finalizers = new.finalizers
  BY DEF Writes, Put, Untouched
<1>1. /\ objects' = [objects EXCEPT ![k] = o] /\ clock' = clock + 1
      /\ stream' = stream \o News(k, o)
  BY DEF Writes, Put
<1>2. o = Absent \/ (o \in Object /\ o.rv = clock + 1 /\ o.finalizers = new.finalizers)
  BY DEF Object, HeldInv, ObjectsOK
<1> HIDE DEF o
<1>3. objects'[k] = o /\ \A l \in Keys \ {k} : objects'[l] = objects[l]
  BY <1>1 DEF HeldInv, ObjectsOK
<1> QED BY <1>1, <1>2, <1>3

\* The versions of the objects, and what they hold.
VersionsOK == \A k \in Live : objects[k].uid <= objects[k].rv

LEMMA ObjectsStep ==
  ASSUME HeldInv, HeldInv', UniqueOK, VersionsOK, OneWrite
  PROVE  UniqueOK' /\ VersionsOK'
<1>1. CASE Untouched
  BY <1>1 DEF Untouched, UniqueOK, VersionsOK, Live, Exists
<1>2. CASE \E k \in Keys, new \in Object : Writes(k, new) /\ ~Untouched
  <2>1. PICK k \in Keys, new \in Object : Writes(k, new) /\ ~Untouched
    BY <1>2
  <2>2. /\ \A l \in Keys \ {k} : objects'[l] = objects[l]
        /\ clock' = clock + 1
        /\ \/ objects'[k] = Absent
           \/ /\ objects'[k] \in Object /\ objects'[k].rv = clock'
              /\ objects'[k].finalizers = new.finalizers
    BY <2>1, WriteEffect
  <2>3. ASSUME NEW l \in Live', l # k
        PROVE  Unique(objects'[l].finalizers) /\ objects'[l].uid <= objects'[l].rv
    <3>1. l \in Live /\ objects'[l] = objects[l]
      BY <2>2, <2>3 DEF Live, Exists
    <3> QED BY <3>1 DEF UniqueOK, VersionsOK
  <2>4. ASSUME k \in Live'
        PROVE  Unique(objects'[k].finalizers) /\ objects'[k].uid <= objects'[k].rv
    <3>1. objects'[k].finalizers = new.finalizers /\ objects'[k].rv = clock'
      BY <2>2, <2>4 DEF Live, Exists
    <3>2. objects'[k].uid <= clock'
      BY <2>4 DEF HeldInv, NumbersOK, ObjectsOK
    <3>3. CASE Exists(k)
      <4>1. k \in Live /\ objects[k].finalizers \in Seq(Others \cup {Mine})
        BY <3>3, LiveObject DEF Live, Object
      <4> QED BY <2>1, <3>1, <3>2, <3>3, <4>1, ListedIsUnique DEF UniqueOK, Writes
    <3>4. CASE ~Exists(k)
      BY <2>1, <3>1, <3>2, <3>4 DEF Writes, Unique
    <3> QED BY <3>3, <3>4
  <2> QED BY <2>3, <2>4 DEF UniqueOK, VersionsOK
<1> QED BY <1>1, <1>2 DEF OneWrite
\* The calls of gc_resources and of the resource helpers.
CallsOK ==
  /\ gc \in {"idle", "deleting", "Ok", "Err"}
  /\ task \in Polling \cup {"idle", "ensure_resource"}
  /\ result \in Results
  /\ interval \in Intervals \cup {0}
  /\ delay \in Nat /\ (delay <= 60 \/ delay = interval)

LEMMA CallsStep == ASSUME CallsOK, [Next]_vars PROVE CallsOK'
<1>1. CASE UNCHANGED <<gcVars, resourceVars>>
  BY <1>1 DEF CallsOK, gcVars, resourceVars, Polling
<1>2. CASE GcStep
  BY <1>2 DEF CallsOK, GcStep, GcNext, List, DeleteNext, DeleteFails, GcDone,
              resourceVars, Polling
<1>3. CASE ResourcesStep
  <2>1. gc' = gc /\ ResourcesNext
    BY <1>3 DEF ResourcesStep, gcVars
  <2>2. interval \in Nat /\ delay \in Nat
    BY WaitAssumption DEF CallsOK
  <2>3. ASSUME NEW r \in Results, Return(r) PROVE CallsOK'
    BY <2>1, <2>3 DEF Return, CallsOK, Polling
  <2>4. ASSUME NEW s \in Nat, Sleep(s), s <= 60 \/ s = interval PROVE CallsOK'
    BY <2>1, <2>4 DEF Sleep, CallsOK, Polling
  <2>5. CASE apply_resource \/ delete_resource \/ patch_labels \/ remove_labels
    BY <2>3, <2>5 DEF apply_resource, delete_resource, patch_labels, remove_labels,
                      Relabel, Results
  <2>6. CASE EnsureGet
    <3>1. CASE Return("Err")
      BY <2>3, <3>1 DEF Results
    <3>2. CASE Goto("ensure_resource") /\ UNCHANGED delay
      BY <2>1, <3>2 DEF Goto, CallsOK, Polling
    <3> QED BY <2>6, <3>1, <3>2 DEF EnsureGet
  <2>7. CASE EnsureApply
    <3>1. \A old, new : Outcome(old, new) \in Results
      BY DEF Outcome, Results
    <3> QED BY <2>3, <2>7, <3>1 DEF EnsureApply, Results
  <2>8. CASE StartWait
    BY <2>1, <2>8 DEF StartWait, CallsOK, Polling
  <2>9. CASE Poll
    BY <2>2, <2>3, <2>4, <2>9 DEF Poll, Results
  <2>10. CASE PollFails
    <3>1. ASSUME NEW s \in Nat PROVE Capped(s) \in Nat /\ Capped(s) <= 60
      BY DEF Capped
    <3>2. 2 * interval \in Nat
      BY <2>2
    <3> QED BY <2>2, <2>4, <2>10, <3>1, <3>2 DEF PollFails, SleepAfterError
  <2>11. CASE Wake
    BY <2>1, <2>11 DEF Wake, CallsOK, Polling
  <2> QED BY <2>1, <2>5, <2>6, <2>7, <2>8, <2>9, <2>10, <2>11 DEF ResourcesNext
<1> QED BY <1>1, <1>2, <1>3 DEF Next, Outsiders, FinalizersStep, WatchersStep, vars

-----------------------------------------------------------------------------
(***************************************************************************)
(* The watch.  A version that is on its way has been given.                *)
(***************************************************************************)
Event == [type : {"Init", "InitApply", "InitDone", "Apply", "Delete"},
          key : Keys, rv : Nat]

Given(s) == \A i \in DOMAIN s : s[i].rv <= clock

\* In one mode only signals are sent, in the others none.
Fits(s) == \A i \in DOMAIN s : s[i].type = "Signal" <=> mode = "signal"

WatchOK ==
  /\ watcher \in {"none", "running", "ended"}
  /\ sending \in Seq(Message) /\ Len(sending) <= 1 /\ Given(sending) /\ Fits(sending)
  /\ channel \in Seq(Message) /\ Len(channel) <= Capacity /\ Given(channel) /\ Fits(channel)
  /\ stream \in Seq(Event) /\ Given(stream)
  /\ mirror \in [Keys -> 0 .. clock]
  /\ watcher = "none" =>
       /\ watched = "none" /\ stream = <<>> /\ sending = <<>> /\ channel = <<>>
       /\ mirror = [k \in Keys |-> 0]

LEMMA NewsOK ==
  ASSUME NEW k \in Keys, NEW o, o = Absent \/ (o \in Object /\ o.rv = clock'), clock' \in Nat
  PROVE  /\ News(k, o) \in Seq(Event) /\ Len(News(k, o)) <= 1
         /\ \A i \in DOMAIN News(k, o) : News(k, o)[i].rv <= clock'
         /\ watched = "none" => News(k, o) = <<>>
<1>1. CASE Selected(o)
  <2> DEFINE e == [type |-> "Apply", key |-> k, rv |-> o.rv]
  <2>1. e \in Event /\ e.rv = clock' /\ News(k, o) = <<e>> /\ watched # "none"
    BY <1>1 DEF Selected, News, Event, Object
  <2> HIDE DEF e
  <2> QED BY <2>1
<1>2. CASE ~Selected(o) /\ Selected(objects[k])
  <2> DEFINE e == [type |-> "Delete", key |-> k, rv |-> 0]
  <2>1. e \in Event /\ e.rv = 0 /\ News(k, o) = <<e>> /\ watched # "none"
    BY <1>2 DEF Selected, News, Event
  <2> HIDE DEF e
  <2> QED BY <2>1
<1>3. CASE ~Selected(o) /\ ~Selected(objects[k])
  <2> DEFINE none == <<>>
  <2>1. none \in Seq(Event) /\ Len(none) = 0 /\ News(k, o) = none
    BY <1>3 DEF News
  <2> HIDE DEF none
  <2>2. \A i \in DOMAIN none : FALSE
    BY <2>1
  <2> QED BY <1>3, <2>1, <2>2 DEF News
<1> QED BY <1>1, <1>2, <1>3

\* What an event makes the task send.
LEMMA MessagesOK ==
  ASSUME NEW e \in Event
  PROVE  /\ Messages(e) \in Seq(Message) /\ Len(Messages(e)) <= 1
         /\ \A i \in DOMAIN Messages(e) :
              /\ Messages(e)[i].rv \in {0, e.rv}
              /\ Messages(e)[i].type = "Signal" <=> mode = "signal"
              /\ Messages(e)[i].type # "Signal" => Messages(e)[i].key = e.key
<1>1. (CHOOSE k \in Keys : TRUE) \in Keys
  BY DEF Event
<1>2. CASE Messages(e) = <<>>
  <2> DEFINE none == <<>>
  <2>1. none \in Seq(Message) /\ Len(none) = 0
    OBVIOUS
  <2>2. Messages(e) = none
    BY <1>2
  <2> HIDE DEF none
  <2> QED BY <2>1, <2>2
<1>3. ASSUME NEW m \in Message, Messages(e) = <<m>>, m.rv \in {0, e.rv},
             m.type = "Signal" <=> mode = "signal", m.type # "Signal" => m.key = e.key
      PROVE  /\ Messages(e) \in Seq(Message) /\ Len(Messages(e)) <= 1
             /\ \A i \in DOMAIN Messages(e) :
                  /\ Messages(e)[i].rv \in {0, e.rv}
                  /\ Messages(e)[i].type = "Signal" <=> mode = "signal"
                  /\ Messages(e)[i].type # "Signal" => Messages(e)[i].key = e.key
  BY <1>3
<1>4. CASE e.type \in {"Apply", "InitApply"} /\ mode = "signal"
  <2> DEFINE m == Bookmark("Signal")
  <2>1. /\ m \in Message /\ Messages(e) = <<m>> /\ m.rv = 0 /\ m.type = "Signal"
    BY <1>1, <1>4 DEF Messages, Bookmark, Message
  <2> HIDE DEF m
  <2> QED BY <1>3, <1>4, <2>1
<1>5. CASE e.type \in {"Apply", "InitApply"} /\ mode # "signal"
  <2> DEFINE m == [type |-> "Applied", key |-> e.key, rv |-> e.rv]
  <2>1. /\ m \in Message /\ Messages(e) = <<m>> /\ m.rv = e.rv /\ m.type = "Applied"
        /\ m.key = e.key
    BY <1>5 DEF Messages, Message, Event
  <2> HIDE DEF m
  <2> QED BY <1>3, <1>5, <2>1
<1>6. CASE e.type = "Delete" /\ mode = "events"
  <2> DEFINE m == [type |-> "Deleted", key |-> e.key, rv |-> 0]
  <2>1. /\ m \in Message /\ Messages(e) = <<m>> /\ m.rv = 0 /\ m.type = "Deleted"
        /\ m.key = e.key
    BY <1>6 DEF Messages, Message, Event
  <2> HIDE DEF m
  <2> QED BY <1>3, <1>6, <2>1
<1>7. CASE e.type \notin {"Apply", "InitApply"} /\ ~(e.type = "Delete" /\ mode = "events")
  BY <1>2, <1>7 DEF Messages
<1> QED BY <1>4, <1>5, <1>6, <1>7

\* A list of the objects that are there, between its bookmarks.
Listing(ls) ==
  <<Bookmark("Init")>>
    \o SetToSeq({[type |-> "InitApply", key |-> k, rv |-> objects[k].rv] : k \in ls})
    \o <<Bookmark("InitDone")>>

LEMMA ListingOK ==
  ASSUME HeldInv, Keys # {}, NEW ls \in SUBSET Live
  PROVE  /\ Listing(ls) \in Seq(Event) /\ Given(Listing(ls))
         /\ \A i \in DOMAIN Listing(ls) :
              \/ Listing(ls)[i].type \in {"Init", "InitDone"}
              \/ /\ Listing(ls)[i].type = "InitApply" /\ Listing(ls)[i].key \in ls
                 /\ Listing(ls)[i].rv = objects[Listing(ls)[i].key].rv
         /\ \A k \in ls : \E i \in DOMAIN Listing(ls) :
              /\ Listing(ls)[i].type = "InitApply" /\ Listing(ls)[i].key = k
              /\ \A j \in DOMAIN Listing(ls) :
                   j > i => Listing(ls)[j].type = "InitDone" \/ Listing(ls)[j].key # k
         /\ ls # {} => \E i \in DOMAIN Listing(ls) :
              /\ Listing(ls)[i].type = "InitApply"
              /\ \A j \in DOMAIN Listing(ls) : j > i => Listing(ls)[j].type = "InitDone"
<1> DEFINE e == [k \in ls |-> [type |-> "InitApply", key |-> k, rv |-> objects[k].rv]]
           S == {[type |-> "InitApply", key |-> k, rv |-> objects[k].rv] : k \in ls}
           q == SetToSeq(S)
           n == Len(q)
           l == Listing(ls)
           first == Bookmark("Init")
           last == Bookmark("InitDone")
<1>1. /\ ls \subseteq Keys /\ IsFiniteSet(ls) /\ clock \in Nat
      /\ \A k \in ls : objects[k].rv \in 0 .. clock
  BY ApiAssumption, FS_Subset DEF Live, HeldInv, ObjectsOK, NumbersOK
<1>2. IsFiniteSet(S)
  <2>1. e \in Surjection(ls, S)
    BY DEF Surjection
  <2> QED BY <1>1, <2>1, FS_Surjection
<1>3. \A x \in S : /\ x \in Event /\ x.type = "InitApply" /\ x.key \in ls
                   /\ x.rv = objects[x.key].rv /\ x.rv <= clock
  BY <1>1 DEF Event
<1>4. ASSUME NEW k \in ls PROVE \E x \in S : x.key = k
  <2> DEFINE x == [type |-> "InitApply", key |-> k, rv |-> objects[k].rv]
  <2>1. x \in S /\ x.key = k
    OBVIOUS
  <2> QED BY <2>1
<1>5. \A x, y \in S : x.key = y.key => x = y
  OBVIOUS
<1> HIDE DEF e, S
<1>6. /\ q \in Seq(S) /\ n \in Nat
      /\ \A i, j \in 1 .. n : q[i] = q[j] => i = j
      /\ \A x \in S : \E i \in 1 .. n : q[i] = x
      /\ \A i \in 1 .. n : q[i] \in S
  BY <1>2, Enumerates
<1>7. q \in Seq(Event)
  BY <1>3, <1>6
<1>8. /\ first \in Event /\ first.type = "Init" /\ first.rv = 0
      /\ last \in Event /\ last.type = "InitDone" /\ last.rv = 0
  BY DEF Bookmark, Event
<1>9. l = <<first>> \o q \o <<last>>
  BY DEF Listing, S
<1> HIDE DEF q, n, l, first, last
<1>10. /\ l \in Seq(Event) /\ DOMAIN l = 1 .. n + 2
       /\ l[1] = first /\ l[n + 2] = last
       /\ \A i \in 2 .. n + 1 : l[i] = q[i - 1]
  BY <1>6, <1>7, <1>8, <1>9 DEF n
<1>11. \A i \in 1 .. n + 2 : i = 1 \/ i = n + 2 \/ (i \in 2 .. n + 1 /\ i - 1 \in 1 .. n)
  BY <1>6
<1>12. Given(l)
  <2>1. \A i \in 1 .. n : q[i].rv <= clock
    BY <1>3, <1>6
  <2>2. l[1].rv <= clock /\ l[n + 2].rv <= clock
    BY <1>1, <1>8, <1>10
  <2>3. ASSUME NEW i \in 2 .. n + 1 PROVE l[i].rv <= clock
    <3>1. i - 1 \in 1 .. n /\ l[i] = q[i - 1]
      BY <1>6, <1>10
    <3> QED BY <2>1, <3>1
  <2> QED BY <1>10, <1>11, <2>2, <2>3 DEF Given
<1>13. \A i \in DOMAIN l :
         \/ l[i].type \in {"Init", "InitDone"}
         \/ /\ l[i].type = "InitApply" /\ l[i].key \in ls
            /\ l[i].rv = objects[l[i].key].rv
  <2> SUFFICES ASSUME NEW i \in 1 .. n + 2
               PROVE  \/ l[i].type \in {"Init", "InitDone"}
                      \/ /\ l[i].type = "InitApply" /\ l[i].key \in ls
                         /\ l[i].rv = objects[l[i].key].rv
    BY <1>10
  <2>1. CASE i = 1 \/ i = n + 2
    BY <1>8, <1>10, <2>1
  <2>2. CASE i \in 2 .. n + 1 /\ i - 1 \in 1 .. n
    <3>1. l[i] = q[i - 1] /\ q[i - 1] \in S
      BY <1>6, <1>10, <2>2
    <3> QED BY <1>3, <3>1
  <2> QED BY <1>11, <2>1, <2>2
<1>14. ASSUME NEW k \in ls
       PROVE  \E i \in DOMAIN l :
                /\ l[i].type = "InitApply" /\ l[i].key = k
                /\ \A j \in DOMAIN l : j > i => l[j].type = "InitDone" \/ l[j].key # k
  <2>1. PICK p \in 1 .. n : q[p] \in S /\ q[p].key = k
    BY <1>4, <1>6
  <2> DEFINE i == p + 1
  <2>2. i \in 1 .. n + 2 /\ i \in 2 .. n + 1 /\ i - 1 = p
    BY <1>6
  <2> HIDE DEF i
  <2>3. i \in DOMAIN l /\ l[i].type = "InitApply" /\ l[i].key = k
    BY <1>3, <1>10, <2>1, <2>2
  <2>4. ASSUME NEW j \in DOMAIN l, j > i PROVE l[j].type = "InitDone" \/ l[j].key # k
    <3>1. CASE j = n + 2
      BY <1>8, <1>10, <3>1
    <3>2. CASE j \in 2 .. n + 1 /\ j - 1 \in 1 .. n
      <4>1. l[j] = q[j - 1] /\ j - 1 # p
        BY <1>10, <2>2, <2>4, <3>2
      <4>2. q[j - 1] # q[p] /\ q[j - 1] \in S
        BY <1>6, <3>2, <4>1
      <4> QED BY <1>5, <2>1, <4>1, <4>2
    <3>3. j # 1
      BY <1>6, <2>2, <2>4
    <3> QED BY <1>10, <1>11, <3>1, <3>2, <3>3
  <2> QED BY <2>3, <2>4
<1>15. ASSUME ls # {}
       PROVE  \E i \in DOMAIN l :
                /\ l[i].type = "InitApply"
                /\ \A j \in DOMAIN l : j > i => l[j].type = "InitDone"
  <2>1. \E k \in ls : TRUE
    BY <1>15
  <2>2. n \in 1 .. n
    BY <1>4, <1>6, <2>1
  <2>3. /\ n + 1 \in 2 .. n + 1 /\ n + 1 \in 1 .. n + 2 /\ (n + 1) - 1 = n
        /\ \A j \in 1 .. n + 2 : j > n + 1 => j = n + 2
    BY <1>6, <2>2
  <2>4. l[n + 1].type = "InitApply"
    BY <1>3, <1>6, <1>10, <2>2, <2>3
  <2>5. \A j \in DOMAIN l : j > n + 1 => l[j].type = "InitDone"
    BY <1>8, <1>10, <2>3
  <2> QED BY <1>10, <2>3, <2>4, <2>5
<1> QED BY <1>10, <1>12, <1>13, <1>14, <1>15 DEF l
LEMMA EntryType == ASSUME NEW S, NEW s \in Seq(S), NEW j \in DOMAIN s PROVE s[j] \in S
  OBVIOUS

\* The entries of a sequence that is joined or shortened.
LEMMA Joined ==
  ASSUME NEW S, NEW s \in Seq(S), NEW r \in Seq(S)
  PROVE  /\ s \o r \in Seq(S) /\ Len(s \o r) = Len(s) + Len(r)
         /\ \A i \in DOMAIN (s \o r) :
              (\E j \in DOMAIN s : (s \o r)[i] = s[j]) \/ (\E j \in DOMAIN r : (s \o r)[i] = r[j])
<1> DEFINE c == s \o r
<1>1. /\ c \in Seq(S) /\ Len(c) = Len(s) + Len(r) /\ DOMAIN c = 1 .. Len(s) + Len(r)
      /\ \A i \in 1 .. Len(s) : c[i] = s[i]
      /\ \A i \in Len(s) + 1 .. Len(s) + Len(r) : c[i] = r[i - Len(s)]
      /\ Len(s) \in Nat /\ Len(r) \in Nat
  OBVIOUS
<1> HIDE DEF c
<1>2. ASSUME NEW i \in DOMAIN c
      PROVE  (\E j \in DOMAIN s : c[i] = s[j]) \/ (\E j \in DOMAIN r : c[i] = r[j])
  <2>1. CASE i \in 1 .. Len(s)
    BY <1>1, <2>1
  <2>2. CASE i \in Len(s) + 1 .. Len(s) + Len(r)
    <3>1. i - Len(s) \in DOMAIN r
      BY <1>1, <2>2
    <3> QED BY <1>1, <2>2, <3>1
  <2> QED BY <1>1, <2>1, <2>2
<1> QED BY <1>1, <1>2 DEF c

LEMMA Tailed ==
  ASSUME NEW S, NEW s \in Seq(S), s # <<>>
  PROVE  /\ Tail(s) \in Seq(S) /\ Len(Tail(s)) = Len(s) - 1
         /\ \A i \in DOMAIN Tail(s) : i + 1 \in DOMAIN s /\ Tail(s)[i] = s[i + 1]
         /\ 1 \in DOMAIN s /\ Head(s) = s[1] /\ s[1] \in S
OBVIOUS

LEMMA WatchKeptByWrites ==
  ASSUME HelpersInv, HelpersInv', clock <= clock', WatchOK, OneWrite, UNCHANGED watcherVars
  PROVE  WatchOK'
<1>1. /\ UNCHANGED <<watcher, mode, sending, channel, mirror, watched>>
      /\ clock \in Nat /\ clock' \in Nat
  BY DEF watcherVars, OneWrite, HelpersInv, HeldInv, ObjectsOK
<1>2. /\ sending \in Seq(Message) /\ channel \in Seq(Message)
      /\ mirror \in [Keys -> 0 .. clock]
  BY DEF WatchOK
<1>3. Given(sending)' /\ Given(channel)' /\ Fits(sending)' /\ Fits(channel)'
  <2>1. Given(sending) /\ Given(channel) /\ Fits(sending) /\ Fits(channel)
    BY DEF WatchOK
  <2>2. \A m \in Message : m.rv \in Nat
    BY DEF Message
  <2>3. \A j \in DOMAIN sending : sending[j].rv <= clock'
    BY <1>1, <1>2, <2>1, <2>2, EntryType DEF Given
  <2>4. \A j \in DOMAIN channel : channel[j].rv <= clock'
    BY <1>1, <1>2, <2>1, <2>2, EntryType DEF Given
  <2> QED BY <1>1, <2>1, <2>3, <2>4 DEF Given, Fits
<1>4. mirror' \in [Keys -> 0 .. clock']
  BY <1>1, <1>2
<1>5. stream' \in Seq(Event) /\ Given(stream)' /\ (watcher = "none" => stream' = <<>>)
  <2>1. /\ stream \in Seq(Event) /\ \A j \in DOMAIN stream : stream[j].rv <= clock'
    <3>1. stream \in Seq(Event) /\ Given(stream)
      BY DEF WatchOK
    <3>2. \A j \in DOMAIN stream : stream[j].rv \in Nat /\ stream[j].rv <= clock
      <4>1. \A e \in Event : e.rv \in Nat
        BY DEF Event
      <4> QED BY <3>1, <4>1, EntryType DEF Given
    <3> QED BY <1>1, <3>1, <3>2
  <2>2. CASE Untouched
    BY <2>1, <2>2 DEF Untouched, Given, WatchOK
  <2>3. CASE ~Untouched
    <3>1. PICK k \in Keys, new \in Object : Writes(k, new)
      BY <2>3 DEF OneWrite
    <3>2. /\ stream' = stream \o News(k, objects'[k])
          /\ objects'[k] = Absent \/ (objects'[k] \in Object /\ objects'[k].rv = clock')
      BY <2>3, <3>1, WriteEffect DEF HelpersInv
    <3> DEFINE news == News(k, objects'[k])
    <3>3. /\ news \in Seq(Event) /\ (watched = "none" => news = <<>>)
          /\ \A j \in DOMAIN news : news[j].rv <= clock'
      BY <1>1, <3>2, NewsOK
    <3>4. stream' = stream \o news
      BY <3>2
    <3> HIDE DEF news
    <3>5. stream' \in Seq(Event) /\ \A i \in DOMAIN stream' : stream'[i].rv <= clock'
      BY <2>1, <3>3, <3>4, Joined
    <3>6. watcher = "none" => stream' = <<>>
      BY <3>3, <3>4 DEF WatchOK
    <3> QED BY <3>5, <3>6 DEF Given
  <2> QED BY <2>2, <2>3
<1> QED BY <1>1, <1>3, <1>4, <1>5 DEF WatchOK

LEMMA WatchStep ==
  ASSUME HelpersInv, WatchOK, WatchersNext, UNCHANGED <<objects, clock>>
  PROVE  WatchOK'
<1>1. /\ sending \in Seq(Message) /\ channel \in Seq(Message) /\ stream \in Seq(Event)
      /\ Given(sending) /\ Given(channel) /\ Given(stream)
      /\ Fits(sending) /\ Fits(channel) /\ mirror \in [Keys -> 0 .. clock]
      /\ clock \in Nat /\ clock' = clock /\ Capacity \in Nat \ {0} /\ Keys # {}
  BY CapacityAssumption DEF WatchOK, HelpersInv, HeldInv, ObjectsOK
<1> DEFINE none == <<>>
<1>2. /\ none \in Seq(Message) /\ none \in Seq(Event) /\ Len(none) = 0
      /\ Given(none)' /\ Fits(none)'
  BY DEF Given, Fits
<1>3. CASE StartWatch
  <2>1. PICK w \in {"labelled", "all"} :
          /\ watched' = w
          /\ stream' = Listing({k \in Live : w = "all" \/ Owner \in objects[k].labels})
    BY <1>3 DEF StartWatch, Listing
  <2> DEFINE ls == {k \in Live : w = "all" \/ Owner \in objects[k].labels}
  <2>2. ls \in SUBSET Live /\ stream' = Listing(ls)
    BY <2>1
  <2> HIDE DEF ls
  <2>3. stream' \in Seq(Event) /\ Given(stream)'
    BY <1>1, <2>2, ListingOK DEF Given, HelpersInv
  <2> QED BY <1>1, <1>3, <2>3 DEF StartWatch, WatchOK, Given, Fits
<1>4. CASE TakeEvent
  <2>1. /\ stream # <<>> /\ sending' = Messages(Head(stream)) /\ stream' = Tail(stream)
        /\ UNCHANGED <<watcher, mode, channel, mirror, watched>> /\ watcher = "running"
    BY <1>4 DEF TakeEvent
  <2>2. /\ stream' \in Seq(Event) /\ 1 \in DOMAIN stream /\ Head(stream) = stream[1]
        /\ stream[1] \in Event /\ stream[1].rv <= clock
        /\ \A i \in DOMAIN stream' : i + 1 \in DOMAIN stream /\ stream'[i] = stream[i + 1]
    BY <1>1, <2>1, Tailed DEF Given
  <2>3. Given(stream)'
    BY <1>1, <2>2 DEF Given
  <2>4. /\ sending' \in Seq(Message) /\ Len(sending') <= 1 /\ Given(sending)' /\ Fits(sending)'
    <3> DEFINE ms == Messages(stream[1])
    <3>1. /\ ms \in Seq(Message) /\ Len(ms) <= 1 /\ sending' = ms
          /\ \A i \in DOMAIN ms : ms[i].rv \in {0, stream[1].rv}
          /\ \A i \in DOMAIN ms : ms[i].type = "Signal" <=> mode = "signal"
      BY <2>1, <2>2, MessagesOK
    <3> HIDE DEF ms
    <3>2. ASSUME NEW i \in DOMAIN ms PROVE ms[i].rv <= clock
      <4>1. 0 <= clock
        BY <1>1
      <4>2. ms[i].rv = 0 \/ ms[i].rv = stream[1].rv
        BY <3>1
      <4> QED BY <2>2, <4>1, <4>2
    <3> QED BY <1>1, <2>1, <3>1, <3>2 DEF Given, Fits
  <2> QED BY <1>1, <2>1, <2>2, <2>3, <2>4 DEF WatchOK, Given, Fits
<1>5. CASE Send
  <2>1. /\ watcher = "running" /\ UNCHANGED <<watcher, mode, mirror, stream, watched>>
        /\ sending # <<>> /\ sending' = none
        /\ \/ channel' = channel
           \/ Len(channel) < Capacity /\ channel' = channel \o sending
    BY <1>5 DEF Send, api
  <2>2. CASE channel' = channel
    BY <1>1, <1>2, <2>1, <2>2 DEF WatchOK, Given, Fits
  <2>3. CASE Len(channel) < Capacity /\ channel' = channel \o sending
    <3>1. /\ channel' \in Seq(Message) /\ Len(channel') = Len(channel) + Len(sending)
          /\ \A i \in DOMAIN channel' :
               \/ \E j \in DOMAIN channel : channel'[i] = channel[j]
               \/ \E j \in DOMAIN sending : channel'[i] = sending[j]
      BY <1>1, <2>3, Joined
    <3>2. Given(channel)' /\ Fits(channel)'
      <4>1. \A i \in DOMAIN channel' : channel'[i].rv <= clock
        BY <1>1, <3>1 DEF Given
      <4>2. \A i \in DOMAIN channel' : channel'[i].type = "Signal" <=> mode = "signal"
        BY <1>1, <3>1, Zenon DEF Fits
      <4> QED BY <1>1, <2>1, <4>1, <4>2 DEF Given, Fits
    <3>3. Len(channel') <= Capacity
      BY <1>1, <2>3, <3>1 DEF WatchOK
    <3> HIDE DEF none
    <3>4. Given(stream)' /\ sending' = none
      BY <1>1, <2>1 DEF Given
    <3>5. Given(sending)' /\ Fits(sending)'
      BY <1>2, <2>1 DEF Given, Fits
    <3> QED BY <1>1, <1>2, <2>1, <3>1, <3>2, <3>3, <3>4, <3>5 DEF WatchOK
  <2> QED BY <2>1, <2>2, <2>3
<1>6. CASE WatchFails
  <2>1. /\ watcher' = "ended" /\ stream' = none
        /\ UNCHANGED <<mode, sending, channel, mirror>>
    BY <1>6 DEF WatchFails
  <2>2. Given(stream)'
    BY <1>2, <2>1 DEF Given
  <2>3. Given(sending)' /\ Given(channel)'
    BY <1>1, <2>1 DEF Given
  <2>4. Fits(sending)' /\ Fits(channel)'
    BY <1>1, <2>1, Zenon DEF Fits
  <2>5. /\ sending' \in Seq(Message) /\ Len(sending') <= 1
        /\ channel' \in Seq(Message) /\ Len(channel') <= Capacity
        /\ mirror' \in [Keys -> 0 .. clock']
    BY <1>1, <2>1 DEF WatchOK
  <2>6. /\ stream' \in Seq(Event) /\ watcher' \in {"none", "running", "ended"}
        /\ watcher' # "none"
    <3> HIDE DEF none
    <3> QED BY <1>2, <2>1
  <2> QED BY <2>2, <2>3, <2>4, <2>5, <2>6, Zenon DEF WatchOK
<1>7. CASE Receive
  <2>1. /\ channel # <<>> /\ mirror' = Learn(mirror, Head(channel)) /\ channel' = Tail(channel)
        /\ UNCHANGED <<watcher, mode, sending, stream, watched>>
    BY <1>7 DEF Receive, api
  <2>2. /\ channel' \in Seq(Message) /\ Len(channel') = Len(channel) - 1
        /\ 1 \in DOMAIN channel /\ Head(channel) = channel[1] /\ channel[1] \in Message
        /\ \A i \in DOMAIN channel' : i + 1 \in DOMAIN channel /\ channel'[i] = channel[i + 1]
    BY <1>1, <2>1, Tailed
  <2>3. Given(channel)' /\ Fits(channel)' /\ channel[1].rv <= clock /\ channel[1].rv \in Nat
    <3>1. Given(channel)' /\ channel[1].rv <= clock
      BY <1>1, <2>2 DEF Given
    <3>2. Fits(channel)'
      BY <1>1, <2>1, <2>2, Zenon DEF Fits
    <3>3. channel[1].rv \in Nat
      BY <2>2 DEF Message
    <3> QED BY <3>1, <3>2, <3>3
  <2>4. mirror' \in [Keys -> 0 .. clock']
    <3>1. \A k \in Keys : objects[k].rv \in 0 .. clock
      BY <1>1 DEF HelpersInv, HeldInv, NumbersOK, Live, Exists, Absent
    <3>2. CASE channel[1].type = "Signal"
      BY <1>1, <2>1, <2>2, <3>1, <3>2 DEF Learn
    <3>3. CASE channel[1].type # "Signal"
      BY <1>1, <2>1, <2>2, <2>3, <3>3 DEF Learn, Message
    <3> QED BY <3>2, <3>3
  <2>5. watcher # "none" /\ Len(channel') <= Capacity
    BY <1>1, <2>1, <2>2 DEF WatchOK
  <2> QED BY <1>1, <2>1, <2>2, <2>3, <2>4, <2>5 DEF WatchOK, Given, Fits
<1>8. CASE DropReceiver
  <2>1. /\ watcher # "none" /\ channel' = none
        /\ UNCHANGED <<watcher, mode, sending, stream, watched, mirror>>
    BY <1>8 DEF DropReceiver, api
  <2>2. Given(channel)' /\ Fits(channel)'
    BY <1>2, <2>1 DEF Given, Fits
  <2> HIDE DEF none
  <2> QED BY <1>1, <1>2, <2>1, <2>2 DEF WatchOK, Given, Fits
<1> QED BY <1>3, <1>4, <1>5, <1>6, <1>7, <1>8 DEF WatchersNext

-----------------------------------------------------------------------------
TypeInv == HelpersInv /\ UniqueOK /\ VersionsOK /\ CallsOK /\ WatchOK

LEMMA TypeInvInit == Init => TypeInv
<1> SUFFICES ASSUME Init PROVE TypeInv
  OBVIOUS
<1> USE DEF Init, InitApi, InitGc, InitResources, InitWatchers
<1>1. HelpersInv /\ Live = {}
  BY InitInv DEF Live, Exists
<1>2. UniqueOK /\ VersionsOK
  BY <1>1 DEF UniqueOK, VersionsOK
<1>3. CallsOK
  BY DEF CallsOK, Results
<1> DEFINE none == <<>>
<1>4. /\ none \in Seq(Message) /\ none \in Seq(Event) /\ Len(none) = 0
      /\ Given(none) /\ Fits(none)
  BY DEF Given, Fits
<1> HIDE DEF none
<1>5. /\ sending = none /\ channel = none /\ stream = none /\ watcher = "none"
      /\ watched = "none" /\ mirror = [k \in Keys |-> 0] /\ clock = 0
  BY DEF none
<1>6. mirror \in [Keys -> 0 .. clock] /\ Len(channel) <= Capacity
  BY <1>4, <1>5, CapacityAssumption
<1> QED BY <1>1, <1>2, <1>3, <1>4, <1>5, <1>6 DEF TypeInv, WatchOK, none

LEMMA TypeInvStep == TypeInv /\ [Next]_vars => TypeInv'
<1> SUFFICES ASSUME TypeInv, [Next]_vars PROVE TypeInv'
  OBVIOUS
<1>1. HelpersInv /\ HelpersInv' /\ HeldInv /\ HeldInv' /\ clock <= clock' /\ CallsOK'
  BY StepInv, CallsStep DEF TypeInv, HeldStep, HelpersInv
<1>2. CASE Outsiders \/ FinalizersStep \/ GcStep \/ ResourcesStep
  <2>1. OneWrite /\ UNCHANGED watcherVars
    BY <1>1, <1>2, HelpersWrite
  <2> QED BY <1>1, <2>1, ObjectsStep, WatchKeptByWrites DEF TypeInv
<1>3. CASE WatchersStep
  <2>1. UNCHANGED <<objects, clock>> /\ WatchersNext
    BY <1>3 DEF WatchersStep, WatchersNext, StartWatch, TakeEvent, Send, WatchFails,
                Receive, DropReceiver, api
  <2>2. WatchOK'
    BY <2>1, WatchStep DEF TypeInv
  <2>3. UniqueOK' /\ VersionsOK'
    BY <2>1 DEF TypeInv, UniqueOK, VersionsOK, Live, Exists
  <2> QED BY <1>1, <2>2, <2>3 DEF TypeInv
<1>4. CASE UNCHANGED vars
  BY <1>1, <1>4 DEF vars, api, watcherVars, TypeInv, UniqueOK, VersionsOK, Live, Exists,
                    WatchOK, Given, Fits
<1> QED BY <1>2, <1>3, <1>4 DEF Next

LEMMA TypeInvAlways == Spec => []TypeInv
  BY TypeInvInit, TypeInvStep, PTL DEF Spec

\* Every variable keeps its type; a uid is not newer than the version of its
\* object, no finalizer is listed twice, no wait sleeps longer than its interval
\* or the ceiling of 60 seconds, and the channel never holds more than it has
\* room for.
THEOREM TypeCorrect == Spec => []TypeOK
<1>1. TypeInv => TypeOK
  <2> SUFFICES ASSUME TypeInv PROVE TypeOK
    OBVIOUS
  <2>1. /\ objects \in [Keys -> Object \cup {Absent}] /\ clock \in Nat /\ held \subseteq Mark
        /\ copy \in [key : Keys, object : Object \cup {Absent}]
        /\ todo \subseteq [key : InScope(scope), uid : orphans]
        /\ place \in Keys /\ live_rv \in 0 .. clock
    BY DEF TypeInv, HelpersInv, HeldInv, ObjectsOK, ToDoOK
  <2>2. ASSUME NEW k \in Live
        PROVE  /\ 0 < objects[k].uid /\ objects[k].uid <= objects[k].rv
               /\ objects[k].rv <= clock /\ Unique(objects[k].finalizers)
    BY <2>1 DEF TypeInv, HelpersInv, HeldInv, NumbersOK, VersionsOK, UniqueOK
  <2>3. /\ watcher \in {"none", "running", "ended"}
        /\ sending \in Seq(Message) /\ Len(sending) <= 1
        /\ channel \in Seq(Message) /\ Len(channel) <= Capacity
        /\ mirror \in [Keys -> 0 .. clock]
    BY DEF TypeInv, WatchOK
  <2>4. CallsOK
    BY DEF TypeInv
  <2> QED BY <2>1, <2>2, <2>3, <2>4 DEF TypeOK, CallsOK, Unique
<1> QED BY <1>1, TypeInvAlways, PTL
-----------------------------------------------------------------------------
(***************************************************************************)
(* WatchFaithful.  The words about k come from its mirror, the channel,    *)
(* the message about to be sent and the events not taken yet; a step moves *)
(* them on and keeps their order.                                          *)
(***************************************************************************)
\* What a message makes of version x of k: its word, {} if it is not about k.
OneWord(m, k, x) ==
  IF m.type = "Signal" THEN {x} ELSE IF m.key = k THEN {m.rv} ELSE {}

FirstWord(ms, k, x) == IF ms = <<>> THEN {} ELSE OneWord(ms[1], k, x)

LEMMA WordIs ==
  ASSUME WatchOK, NEW k \in Keys, NEW ms \in Seq(Message), Len(ms) <= 1
  PROVE  Word(ms, k) = FirstWord(ms, k, objects[k].rv)
<1>1. mirror \in [Keys -> 0 .. clock]
  BY DEF WatchOK
<1>2. CASE ms = <<>>
  BY <1>2 DEF Word, FirstWord, ToSet
<1>3. CASE ms # <<>>
  <2>1. ToSet(ms) = {ms[1]} /\ ms[1] \in Message
    BY <1>3 DEF ToSet
  <2>2. ms[1].key = k => Learn(mirror, ms[1])[k] = IF ms[1].type = "Signal"
                                                   THEN objects[k].rv ELSE ms[1].rv
    BY <1>1 DEF Learn
  <2>3. ms[1].type = "Signal" => Learn(mirror, ms[1])[k] = objects[k].rv
    BY DEF Learn
  <2> QED BY <1>3, <2>1, <2>2, <2>3 DEF Word, FirstWord, OneWord
<1> QED BY <1>2, <1>3

\* Two words and two sequences of words, one after the other.
Parts(w, a, b, c, d) ==
  /\ DOMAIN w = 1 .. Len(b) + 2 + Len(d)
  /\ w[1] = a /\ w[Len(b) + 2] = c
  /\ \A i \in 1 .. Len(b) : w[i + 1] = b[i]
  /\ \A i \in 1 .. Len(d) : w[Len(b) + 2 + i] = d[i]

LEMMA FourParts ==
  ASSUME NEW S, NEW a \in S, NEW b \in Seq(S), NEW c \in S, NEW d \in Seq(S), NEW w,
         w = <<a>> \o b \o <<c>> \o d
  PROVE  Parts(w, a, b, c, d)
<1> DEFINE u == <<a>> \o b
           v == u \o <<c>>
<1>1. /\ u \in Seq(S) /\ Len(u) = Len(b) + 1 /\ u[1] = a
      /\ \A i \in 1 .. Len(b) : u[i + 1] = b[i]
  OBVIOUS
<1> HIDE DEF u
<1>2. /\ v \in Seq(S) /\ Len(v) = Len(b) + 2 /\ v[Len(b) + 2] = c
      /\ \A i \in 1 .. Len(b) + 1 : v[i] = u[i]
  BY <1>1
<1>3. w = v \o d
  BY DEF u
<1> HIDE DEF v
<1>4. /\ DOMAIN w = 1 .. Len(b) + 2 + Len(d)
      /\ \A i \in 1 .. Len(b) + 2 : w[i] = v[i]
      /\ \A i \in 1 .. Len(d) : w[Len(b) + 2 + i] = d[i]
  BY <1>2, <1>3
<1>5. Len(b) \in Nat
  OBVIOUS
<1> QED BY <1>1, <1>2, <1>4, <1>5 DEF Parts

\* What an event makes of it, on its way to be sent.
EventWord(md, e, k, x) ==
  IF e.type \in {"Apply", "InitApply"}
  THEN IF md = "signal" THEN {x} ELSE IF e.key = k THEN {e.rv} ELSE {}
  ELSE IF e.type = "Delete" /\ md = "events" /\ e.key = k THEN {0} ELSE {}

LEMMA EventWordIs ==
  ASSUME WatchOK, NEW k \in Keys, NEW e \in Event
  PROVE  Word(Messages(e), k) = EventWord(mode, e, k, objects[k].rv)
<1> DEFINE ms == Messages(e)
           x == objects[k].rv
<1>1. ms \in Seq(Message) /\ Len(ms) <= 1
  BY MessagesOK
<1>2. Word(ms, k) = FirstWord(ms, k, x)
  <2> HIDE DEF ms
  <2> QED BY <1>1, WordIs, Zenon
<1>3. FirstWord(ms, k, x) = EventWord(mode, e, k, x)
  <2> HIDE DEF x
  <2>1. CASE e.type \in {"Apply", "InitApply"} /\ mode = "signal"
    BY <2>1 DEF Messages, Bookmark, FirstWord, OneWord, EventWord
  <2>2. CASE e.type \in {"Apply", "InitApply"} /\ mode # "signal"
    <3> DEFINE m == [type |-> "Applied", key |-> e.key, rv |-> e.rv]
    <3>1. ms = <<m>> /\ m.type # "Signal" /\ m.key = e.key /\ m.rv = e.rv
      BY <2>2 DEF Messages
    <3> HIDE DEF m, ms
    <3> QED BY <2>2, <3>1 DEF FirstWord, OneWord, EventWord
  <2>3. CASE e.type = "Delete" /\ mode = "events"
    <3> DEFINE m == [type |-> "Deleted", key |-> e.key, rv |-> 0]
    <3>1. ms = <<m>> /\ m.type # "Signal" /\ m.key = e.key /\ m.rv = 0
      BY <2>3 DEF Messages
    <3> HIDE DEF m, ms
    <3> QED BY <2>3, <3>1 DEF FirstWord, OneWord, EventWord
  <2>4. CASE e.type \notin {"Apply", "InitApply"} /\ ~(e.type = "Delete" /\ mode = "events")
    <3>1. ms = <<>>
      BY <2>4 DEF Messages
    <3> HIDE DEF ms
    <3> QED BY <2>4, <3>1 DEF FirstWord, EventWord
  <2> QED BY <2>1, <2>2, <2>3, <2>4
<1> QED BY <1>2, <1>3

WordsAre(k) ==
  /\ DOMAIN Words(k) = 1 .. Len(channel) + 2 + Len(stream)
  /\ Words(k)[1] = {mirror[k]}
  /\ \A i \in 1 .. Len(channel) : Words(k)[i + 1] = OneWord(channel[i], k, objects[k].rv)
  /\ Words(k)[Len(channel) + 2] = FirstWord(sending, k, objects[k].rv)
  /\ \A i \in 1 .. Len(stream) :
       Words(k)[Len(channel) + 2 + i] = EventWord(mode, stream[i], k, objects[k].rv)

AllWords == \A k \in Keys : WordsAre(k)

LEMMA WordsNow == WatchOK => AllWords
<1> SUFFICES ASSUME WatchOK, NEW k \in Keys PROVE WordsAre(k)
  BY DEF AllWords
<1> DEFINE x == objects[k].rv
           S == SUBSET (Nat \cup {x})
           b == [i \in DOMAIN channel |-> Word(<<channel[i]>>, k)]
           c == Word(sending, k)
           d == [i \in DOMAIN stream |-> Word(Messages(stream[i]), k)]
           w == Words(k)
<1>1. /\ channel \in Seq(Message) /\ sending \in Seq(Message) /\ Len(sending) <= 1
      /\ stream \in Seq(Event) /\ mirror[k] \in Nat
  BY DEF WatchOK
<1>2. \A m \in Message : OneWord(m, k, x) \in S
  BY DEF OneWord, Message
<1>3. \A ms \in Seq(Message) : Len(ms) <= 1 => FirstWord(ms, k, x) \in S
  BY <1>2 DEF FirstWord
<1>4. ASSUME NEW i \in DOMAIN channel
      PROVE  b[i] = OneWord(channel[i], k, x) /\ b[i] \in S
  <2> DEFINE ms == <<channel[i]>>
  <2>1. channel[i] \in Message /\ ms \in Seq(Message) /\ Len(ms) <= 1 /\ ms[1] = channel[i]
        /\ ms # <<>>
    BY <1>1, <1>4
  <2>2. b[i] = Word(ms, k)
    OBVIOUS
  <2> HIDE DEF ms
  <2>3. Word(ms, k) = FirstWord(ms, k, x)
    BY <2>1, WordIs, Zenon
  <2>4. Word(ms, k) = OneWord(channel[i], k, x)
    BY <2>1, <2>3 DEF FirstWord
  <2> HIDE DEF b, S
  <2> QED BY <1>2, <2>1, <2>2, <2>4
<1>5. c = FirstWord(sending, k, x) /\ c \in S
  BY <1>1, <1>3, WordIs
<1>6. ASSUME NEW i \in DOMAIN stream
      PROVE  d[i] = EventWord(mode, stream[i], k, x) /\ d[i] \in S
  <2>1. stream[i] \in Event
    BY <1>1
  <2>2. EventWord(mode, stream[i], k, x) \in S
    BY <2>1 DEF EventWord, Event
  <2>3. d[i] = Word(Messages(stream[i]), k)
    BY <1>6
  <2> HIDE DEF d, S
  <2>4. Word(Messages(stream[i]), k) = EventWord(mode, stream[i], k, x)
    BY <2>1, EventWordIs
  <2> QED BY <2>2, <2>3, <2>4
<1>7. b \in Seq(S) /\ Len(b) = Len(channel) /\ d \in Seq(S) /\ Len(d) = Len(stream)
      /\ DOMAIN channel = 1 .. Len(channel) /\ DOMAIN stream = 1 .. Len(stream)
  <2>1. DOMAIN channel = 1 .. Len(channel) /\ DOMAIN stream = 1 .. Len(stream)
        /\ Len(channel) \in Nat /\ Len(stream) \in Nat
    BY <1>1
  <2>2. b \in [1 .. Len(channel) -> S]
    BY <1>4, <2>1
  <2>3. d \in [1 .. Len(stream) -> S]
    BY <1>6, <2>1
  <2> HIDE DEF b, d, S
  <2> QED BY <2>1, <2>2, <2>3
<1>8. w = <<{mirror[k]}>> \o b \o <<c>> \o d /\ {mirror[k]} \in S
  BY <1>1 DEF Words
<1> HIDE DEF b, c, d, S, w
<1>9. /\ DOMAIN w = 1 .. Len(b) + 2 + Len(d)
      /\ w[1] = {mirror[k]} /\ w[Len(b) + 2] = c
      /\ \A i \in 1 .. Len(b) : w[i + 1] = b[i]
      /\ \A i \in 1 .. Len(d) : w[Len(b) + 2 + i] = d[i]
  <2> DEFINE a == {mirror[k]}
  <2>1. a \in S /\ b \in Seq(S) /\ c \in S /\ d \in Seq(S) /\ w = <<a>> \o b \o <<c>> \o d
    BY <1>5, <1>7, <1>8
  <2> HIDE DEF a
  <2>2. Parts(w, a, b, c, d)
    BY <2>1, FourParts, Zenon
  <2> QED BY <2>2 DEF a, Parts
<1> QED BY <1>4, <1>5, <1>6, <1>7, <1>9 DEF WordsAre, w

LEMMA WordsThen == WatchOK' => AllWords'
  BY WordsNow, PTL

\* The last word of a sequence of words.
EndsIn(s, v) ==
  \E i \in DOMAIN s : s[i] = {v} /\ \A j \in DOMAIN s : j > i => s[j] = {}

\* It stays the last one when another word is taken out, ...
LEMMA Shorter ==
  ASSUME NEW s, NEW n \in Nat, DOMAIN s = 1 .. n, NEW d \in 1 .. n,
         s[d] = {} \/ \E j \in 1 .. n : j > d /\ s[j] # {},
         NEW r, DOMAIN r = 1 .. n - 1,
         \A p \in 1 .. n - 1 : r[p] = IF p < d THEN s[p] ELSE s[p + 1],
         NEW v, EndsIn(s, v)
  PROVE  EndsIn(r, v)
<1>1. PICK i \in 1 .. n : s[i] = {v} /\ \A j \in 1 .. n : j > i => s[j] = {}
  BY DEF EndsIn
<1>2. i # d
  BY <1>1
<1> DEFINE q == IF i < d THEN i ELSE i - 1
<1>3. q \in 1 .. n - 1 /\ r[q] = {v}
  BY <1>1, <1>2
<1>4. ASSUME NEW p \in 1 .. n - 1, p > q PROVE r[p] = {}
  <2>1. CASE p < d
    <3>1. p \in 1 .. n /\ p > i /\ r[p] = s[p]
      BY <1>2, <1>4, <2>1
    <3> QED BY <1>1, <3>1
  <2>2. CASE ~(p < d)
    <3>1. p + 1 \in 1 .. n /\ p + 1 > i /\ r[p] = s[p + 1]
      BY <1>2, <1>4, <2>2
    <3> QED BY <1>1, <3>1
  <2> QED BY <2>1, <2>2
<1> HIDE DEF q
<1> QED BY <1>3, <1>4 DEF EndsIn

\* ... and when an empty one is put in.
LEMMA Longer ==
  ASSUME NEW s, NEW n \in Nat, DOMAIN s = 1 .. n,
         NEW r, DOMAIN r = 1 .. n + 1, NEW d \in 1 .. n + 1, r[d] = {},
         \A p \in 1 .. n : s[p] = IF p < d THEN r[p] ELSE r[p + 1],
         NEW v, EndsIn(s, v)
  PROVE  EndsIn(r, v)
<1>1. PICK i \in 1 .. n : s[i] = {v} /\ \A j \in 1 .. n : j > i => s[j] = {}
  BY DEF EndsIn
<1> DEFINE q == IF i < d THEN i ELSE i + 1
<1>2. q \in 1 .. n + 1 /\ r[q] = {v}
  BY <1>1
<1>3. ASSUME NEW p \in 1 .. n + 1, p > q PROVE r[p] = {}
  <2>1. CASE p < d
    <3>1. p \in 1 .. n /\ p > i /\ s[p] = r[p]
      BY <1>3, <2>1
    <3> QED BY <1>1, <3>1
  <2>2. CASE p > d
    <3>1. p - 1 \in 1 .. n /\ p - 1 > i /\ s[p - 1] = r[p]
      BY <1>3, <2>2
    <3> QED BY <1>1, <3>1
  <2> QED BY <2>1, <2>2
<1> HIDE DEF q
<1> QED BY <1>2, <1>3 DEF EndsIn

\* What a reader is to know in the end of k: nothing, where no deletions are told.
Wanted(k) ==
  IF Selected(objects[k]) THEN {objects[k].rv}
  ELSE IF mode = "events" THEN {0} ELSE {}

FaithInv ==
  watcher = "running" /\ open => \A k \in Keys : \A v \in Wanted(k) : EndsIn(Words(k), v)

\* What a write does to the words about k.
LEMMA WordsOfWrite ==
  ASSUME WatchOK, WatchOK', UNCHANGED watcherVars,
         NEW news \in Seq(Event), Len(news) <= 1, stream' = stream \o news,
         NEW k \in Keys
  PROVE  \E n \in Nat :
           /\ DOMAIN Words(k) = 1 .. n /\ DOMAIN Words(k)' = 1 .. n + Len(news)
           /\ mode # "signal" \/ objects'[k].rv = objects[k].rv
                => \A p \in 1 .. n : Words(k)'[p] = Words(k)[p]
           /\ news # <<>> =>
                Words(k)'[n + 1] = EventWord(mode, news[1], k, objects'[k].rv)
<1> DEFINE s == Words(k)
           r == Words(k)'
           x == objects[k].rv
           y == objects'[k].rv
           c == Len(channel)
           n == c + 2 + Len(stream)
<1>1. /\ channel' = channel /\ sending' = sending /\ mirror' = mirror /\ mode' = mode
      /\ channel \in Seq(Message) /\ sending \in Seq(Message) /\ Len(sending) <= 1
      /\ stream \in Seq(Event) /\ c \in Nat /\ Len(stream) \in Nat
      /\ Len(news) \in Nat /\ Fits(channel) /\ Fits(sending)
  BY DEF WatchOK, watcherVars
<1>2. WordsAre(k) /\ WordsAre(k)'
  BY WordsNow, WordsThen DEF AllWords
<1>3. /\ DOMAIN s = 1 .. n /\ s[1] = {mirror[k]} /\ s[c + 2] = FirstWord(sending, k, x)
      /\ \A i \in 1 .. c : s[i + 1] = OneWord(channel[i], k, x)
      /\ \A i \in 1 .. Len(stream) : s[c + 2 + i] = EventWord(mode, stream[i], k, x)
  BY <1>2 DEF WordsAre
<1>4. /\ DOMAIN r = 1 .. c + 2 + Len(stream') /\ r[1] = {mirror[k]}
      /\ r[c + 2] = FirstWord(sending, k, y)
      /\ \A i \in 1 .. c : r[i + 1] = OneWord(channel[i], k, y)
      /\ \A i \in 1 .. Len(stream') : r[c + 2 + i] = EventWord(mode, stream'[i], k, y)
  BY <1>1, <1>2 DEF WordsAre
<1> HIDE DEF s, r, x, y, c
<1>5. /\ Len(stream') = Len(stream) + Len(news)
      /\ \A i \in 1 .. Len(stream) : i \in 1 .. Len(stream') /\ stream'[i] = stream[i]
      /\ news # <<>> => /\ Len(stream) + 1 \in 1 .. Len(stream')
                        /\ stream'[Len(stream) + 1] = news[1]
  BY <1>1
<1>6. ASSUME mode # "signal" \/ x = y, NEW p \in 1 .. n PROVE r[p] = s[p]
  <2>1. \A i \in 1 .. c : OneWord(channel[i], k, x) = OneWord(channel[i], k, y)
    <3>1. \A i \in DOMAIN channel : x # y => channel[i].type # "Signal"
      BY <1>1, <1>6, Zenon DEF Fits
    <3>2. \A i \in DOMAIN channel : OneWord(channel[i], k, x) = OneWord(channel[i], k, y)
      BY <3>1, Zenon DEF OneWord
    <3> QED BY <1>1, <3>2 DEF c
  <2>2. FirstWord(sending, k, x) = FirstWord(sending, k, y)
    <3>1. sending # <<>> => 1 \in DOMAIN sending
      BY <1>1
    <3>2. sending # <<>> /\ x # y => sending[1].type # "Signal"
      BY <1>1, <1>6, <3>1, Zenon DEF Fits
    <3> QED BY <3>2, Zenon DEF FirstWord, OneWord
  <2>3. \A e : EventWord(mode, e, k, x) = EventWord(mode, e, k, y)
    BY <1>6 DEF EventWord
  <2>4. CASE p = 1
    BY <1>3, <1>4, <2>4
  <2>5. CASE p \in 2 .. c + 1
    <3>1. p - 1 \in 1 .. c /\ (p - 1) + 1 = p
      BY <1>1, <2>5
    <3>2. s[p] = OneWord(channel[p - 1], k, x) /\ r[p] = OneWord(channel[p - 1], k, y)
      BY <1>3, <1>4, <3>1
    <3> QED BY <2>1, <3>1, <3>2
  <2>6. CASE p = c + 2
    BY <1>3, <1>4, <2>2, <2>6
  <2>7. CASE p > c + 2
    <3> DEFINE i == p - (c + 2)
    <3>1. i \in 1 .. Len(stream) /\ c + 2 + i = p
      BY <1>1, <2>7
    <3> HIDE DEF i
    <3>2. s[p] = EventWord(mode, stream[i], k, x) /\ r[p] = EventWord(mode, stream[i], k, y)
      BY <1>3, <1>4, <1>5, <3>1
    <3> QED BY <2>3, <3>2
  <2> QED BY <1>1, <2>4, <2>5, <2>6, <2>7
<1>7. ASSUME news # <<>> PROVE r[n + 1] = EventWord(mode, news[1], k, y)
  <2> DEFINE i == Len(stream) + 1
  <2>1. i \in 1 .. Len(stream') /\ stream'[i] = news[1] /\ c + 2 + i = n + 1
    BY <1>1, <1>5, <1>7
  <2> HIDE DEF i, n
  <2> QED BY <1>4, <2>1
<1>8. n \in Nat /\ DOMAIN s = 1 .. n /\ DOMAIN r = 1 .. n + Len(news)
  BY <1>1, <1>3, <1>4, <1>5
<1> HIDE DEF n
<1> QED BY <1>6, <1>7, <1>8 DEF s, r, x, y

\* A write adds the news of it at the end.
LEMMA WriteKeeps ==
  ASSUME HeldInv, HeldInv', WatchOK, WatchOK', OneWrite, UNCHANGED watcherVars,
         NEW k \in Keys, NEW v \in Wanted(k)', \A u \in Wanted(k) : EndsIn(Words(k), u)
  PROVE  EndsIn(Words(k)', v)
<1> DEFINE s == Words(k)
           r == Words(k)'
           y == objects'[k].rv
<1>1. mode' = mode /\ watched' = watched
  BY DEF watcherVars, OneWrite
<1>2. CASE Untouched
  <2> DEFINE none == <<>>
  <2>1. none \in Seq(Event) /\ Len(none) = 0 /\ stream' = stream \o none /\ objects' = objects
    BY <1>2 DEF Untouched, WatchOK
  <2> HIDE DEF none
  <2>2. PICK n \in Nat : /\ DOMAIN s = 1 .. n /\ DOMAIN r = 1 .. n
                         /\ \A p \in 1 .. n : r[p] = s[p]
    <3>1. PICK n \in Nat : /\ DOMAIN s = 1 .. n /\ DOMAIN r = 1 .. n + Len(none)
                           /\ mode # "signal" \/ y = objects[k].rv
                                => \A p \in 1 .. n : r[p] = s[p]
      <4>1. /\ none \in Seq(Event) /\ Len(none) <= 1 /\ stream' = stream \o none
        BY <2>1
      <4> QED BY <4>1, WordsOfWrite, Zenon
    <3>2. n + Len(none) = n /\ y = objects[k].rv
      BY <2>1
    <3> HIDE DEF s, r, y
    <3> QED BY <3>1, <3>2
  <2>3. EndsIn(s, v)
    BY <1>1, <2>1 DEF Wanted, Selected
  <2> HIDE DEF s, r
  <2>4. EndsIn(r, v)
    BY <2>2, <2>3 DEF EndsIn
  <2> QED BY <2>4 DEF r
<1>3. CASE ~Untouched
  <2>1. PICK k0 \in Keys, new \in Object : Writes(k0, new)
    BY <1>3 DEF OneWrite
  <2> DEFINE o == objects'[k0]
             news == News(k0, o)
  <2>2. /\ \A l \in Keys \ {k0} : objects'[l] = objects[l]
        /\ stream' = stream \o news
        /\ o = Absent \/ (o \in Object /\ o.rv = clock')
    BY <1>3, <2>1, WriteEffect
  <2>3. news \in Seq(Event) /\ Len(news) <= 1
    BY <2>2, NewsOK DEF HeldInv, ObjectsOK
  <2>4. /\ Selected(o) => news = <<[type |-> "Apply", key |-> k0, rv |-> o.rv]>>
        /\ ~Selected(o) /\ Selected(objects[k0]) =>
             news = <<[type |-> "Delete", key |-> k0, rv |-> 0]>>
        /\ ~Selected(o) /\ ~Selected(objects[k0]) => news = <<>>
    BY DEF News
  <2>5. Wanted(k)' = IF Selected(objects'[k]) THEN {y} ELSE IF mode = "events" THEN {0} ELSE {}
    BY <1>1 DEF Wanted, Selected
  <2>6. k # k0 => Wanted(k)' = Wanted(k) /\ y = objects[k].rv
    BY <2>2, <2>5 DEF Wanted
  <2> HIDE DEF news
  <2>7. PICK n \in Nat :
          /\ DOMAIN s = 1 .. n /\ DOMAIN r = 1 .. n + Len(news)
          /\ mode # "signal" \/ y = objects[k].rv => \A p \in 1 .. n : r[p] = s[p]
          /\ news # <<>> => r[n + 1] = EventWord(mode, news[1], k, y)
    BY <2>2, <2>3, WordsOfWrite
  <2> HIDE DEF s, r, y
  <2>8. ASSUME Len(news) = 1, r[n + 1] = {v} PROVE EndsIn(r, v)
    BY <2>7, <2>8 DEF EndsIn
  <2>9. ASSUME Len(news) = 1, r[n + 1] = {}, EndsIn(s, v), \A p \in 1 .. n : r[p] = s[p]
        PROVE  EndsIn(r, v)
    BY <2>7, <2>9 DEF EndsIn
  <2>10. ASSUME news = <<>>, EndsIn(s, v), \A p \in 1 .. n : r[p] = s[p] PROVE EndsIn(r, v)
    <3>1. Len(news) = 0
      BY <2>10
    <3> QED BY <2>7, <2>10, <3>1 DEF EndsIn
  <2>11. k # k0 => EndsIn(s, v) /\ \A p \in 1 .. n : r[p] = s[p]
    BY <2>6, <2>7 DEF s
  <2>12. CASE Selected(o)
    <3> DEFINE e == [type |-> "Apply", key |-> k0, rv |-> o.rv]
    <3>1. news = <<e>> /\ e.type = "Apply" /\ e.key = k0 /\ e.rv = o.rv
      BY <2>4, <2>12
    <3> HIDE DEF e
    <3>2. news # <<>> /\ news[1] = e /\ Len(news) = 1
      BY <3>1
    <3>3. r[n + 1] = IF mode = "signal" THEN {y} ELSE IF k = k0 THEN {o.rv} ELSE {}
      BY <2>7, <3>1, <3>2 DEF EventWord
    <3>4. CASE k = k0
      <4>1. v = y /\ y = o.rv
        BY <2>5, <2>12, <3>4 DEF y
      <4> QED BY <2>8, <3>2, <3>3, <3>4, <4>1 DEF r
    <3>5. CASE k # k0 /\ mode = "signal"
      <4>1. v = y
        BY <2>5, <3>5
      <4> QED BY <2>8, <3>2, <3>3, <3>5, <4>1 DEF r
    <3>6. CASE k # k0 /\ mode # "signal"
      BY <2>9, <2>11, <3>2, <3>3, <3>6 DEF r
    <3> QED BY <3>4, <3>5, <3>6
  <2>13. CASE ~Selected(o) /\ Selected(objects[k0])
    <3> DEFINE e == [type |-> "Delete", key |-> k0, rv |-> 0]
    <3>1. news = <<e>> /\ e.type = "Delete" /\ e.key = k0
      BY <2>4, <2>13
    <3> HIDE DEF e
    <3>2. news # <<>> /\ news[1] = e /\ Len(news) = 1
      BY <3>1
    <3>3. r[n + 1] = IF mode = "events" /\ k = k0 THEN {0} ELSE {}
      BY <2>7, <3>1, <3>2 DEF EventWord
    <3>4. CASE k = k0
      <4>1. v = 0 /\ mode = "events"
        BY <2>5, <2>13, <3>4
      <4> QED BY <2>8, <3>2, <3>3, <3>4, <4>1 DEF r
    <3>5. CASE k # k0
      BY <2>9, <2>11, <3>2, <3>3, <3>5 DEF r
    <3> QED BY <3>4, <3>5
  <2>14. CASE ~Selected(o) /\ ~Selected(objects[k0])
    <3>1. news = <<>>
      BY <2>4, <2>14
    <3>2. CASE k = k0
      <4>1. v = 0 /\ mode = "events"
        BY <2>5, <2>14, <3>2
      <4>2. Wanted(k) = {0}
        BY <2>14, <3>2, <4>1 DEF Wanted
      <4>3. EndsIn(s, v)
        BY <4>1, <4>2 DEF s
      <4> QED BY <2>7, <2>10, <3>1, <4>1, <4>3 DEF r
    <3>3. CASE k # k0
      BY <2>10, <2>11, <3>1, <3>3 DEF r
    <3> QED BY <3>2, <3>3
  <2> QED BY <2>12, <2>13, <2>14
<1> QED BY <1>2, <1>3

\* What is taken is still on its way: nothing was about to be sent.
LEMMA TakeKeeps ==
  ASSUME WatchOK, WatchOK', TakeEvent, NEW k \in Keys, NEW v, EndsIn(Words(k), v)
  PROVE  EndsIn(Words(k)', v)
<1> DEFINE s == Words(k)
           r == Words(k)'
           x == objects[k].rv
           c == Len(channel)
           l == Len(stream')
           n == c + 3 + l
<1>1. /\ channel' = channel /\ mirror' = mirror /\ mode' = mode /\ objects' = objects
      /\ stream # <<>> /\ sending = <<>> /\ sending' = Messages(stream[1])
      /\ stream \in Seq(Event) /\ stream' \in Seq(Event) /\ stream[1] \in Event
      /\ c \in Nat /\ l \in Nat /\ Len(stream) = l + 1
      /\ \A i \in 1 .. l : stream'[i] = stream[i + 1]
  BY DEF TakeEvent, WatchOK
<1>2. WordsAre(k) /\ WordsAre(k)'
  BY WordsNow, WordsThen DEF AllWords
<1>3. /\ DOMAIN s = 1 .. n /\ s[1] = {mirror[k]} /\ s[c + 2] = {}
      /\ \A i \in 1 .. c : s[i + 1] = OneWord(channel[i], k, x)
      /\ \A i \in 1 .. l + 1 : s[c + 2 + i] = EventWord(mode, stream[i], k, x)
  <2>1. /\ DOMAIN s = 1 .. c + 2 + (l + 1) /\ s[1] = {mirror[k]}
        /\ s[c + 2] = FirstWord(sending, k, x)
        /\ \A i \in 1 .. c : s[i + 1] = OneWord(channel[i], k, x)
        /\ \A i \in 1 .. l + 1 : s[c + 2 + i] = EventWord(mode, stream[i], k, x)
    BY <1>1, <1>2 DEF WordsAre
  <2>2. FirstWord(sending, k, x) = {}
    BY <1>1 DEF FirstWord
  <2>3. c + 2 + (l + 1) = n
    BY <1>1
  <2> QED BY <2>1, <2>2, <2>3
<1>4. /\ DOMAIN r = 1 .. c + 2 + l /\ r[1] = {mirror[k]}
      /\ r[c + 2] = FirstWord(sending', k, x)
      /\ \A i \in 1 .. c : r[i + 1] = OneWord(channel[i], k, x)
      /\ \A i \in 1 .. l : r[c + 2 + i] = EventWord(mode, stream'[i], k, x)
  BY <1>1, <1>2 DEF WordsAre
<1>5. FirstWord(sending', k, x) = EventWord(mode, stream[1], k, x)
  <2> DEFINE ms == Messages(stream[1])
  <2>1. ms \in Seq(Message) /\ Len(ms) <= 1 /\ sending' = ms
        /\ Word(ms, k) = EventWord(mode, stream[1], k, x)
    BY <1>1, MessagesOK, EventWordIs
  <2> HIDE DEF ms
  <2> QED BY <2>1, WordIs
<1> HIDE DEF s, r, x, c, l
<1>6. c + 2 \in 1 .. n /\ n \in Nat /\ n - 1 = c + 2 + l
  BY <1>1
<1>7. \A p \in 1 .. n - 1 : r[p] = IF p < c + 2 THEN s[p] ELSE s[p + 1]
  <2> SUFFICES ASSUME NEW p \in 1 .. n - 1
               PROVE  r[p] = IF p < c + 2 THEN s[p] ELSE s[p + 1]
    OBVIOUS
  <2>1. CASE p = 1
    <3>1. p < c + 2
      BY <1>1, <2>1
    <3> QED BY <1>3, <1>4, <2>1, <3>1
  <2>2. CASE p \in 2 .. c + 1
    <3>1. p - 1 \in 1 .. c /\ (p - 1) + 1 = p /\ p < c + 2
      BY <1>1, <2>2
    <3> QED BY <1>3, <1>4, <3>1
  <2>3. CASE p = c + 2
    <3>1. 1 \in 1 .. l + 1 /\ c + 2 + 1 = p + 1 /\ ~(p < c + 2)
      BY <1>1, <2>3
    <3> QED BY <1>3, <1>4, <1>5, <2>3, <3>1
  <2>4. CASE p > c + 2
    <3> DEFINE i == p - (c + 2)
    <3>1. /\ i \in 1 .. l /\ i + 1 \in 1 .. l + 1
          /\ c + 2 + i = p /\ c + 2 + (i + 1) = p + 1 /\ ~(p < c + 2)
      BY <1>1, <2>4
    <3> HIDE DEF i
    <3>2. r[p] = EventWord(mode, stream'[i], k, x)
      BY <1>4, <3>1
    <3>3. s[p + 1] = EventWord(mode, stream[i + 1], k, x)
      BY <1>3, <3>1
    <3> QED BY <1>1, <3>1, <3>2, <3>3
  <2> QED BY <1>1, <2>1, <2>2, <2>3, <2>4
<1> DEFINE d == c + 2
<1>8. /\ n \in Nat /\ d \in 1 .. n /\ DOMAIN s = 1 .. n /\ DOMAIN r = 1 .. n - 1 /\ s[d] = {}
      /\ \A p \in 1 .. n - 1 : r[p] = IF p < d THEN s[p] ELSE s[p + 1]
      /\ EndsIn(s, v)
  BY <1>3, <1>4, <1>6, <1>7 DEF s
<1> HIDE DEF n, d
<1>9. EndsIn(r, v)
  BY <1>8, Shorter, Zenon
<1> QED BY <1>9 DEF r

\* What is sent is now in the channel.
LEMMA SendKeeps ==
  ASSUME WatchOK, WatchOK', Send, open, NEW k \in Keys, NEW v, EndsIn(Words(k), v)
  PROVE  EndsIn(Words(k)', v)
<1> DEFINE s == Words(k)
           r == Words(k)'
           x == objects[k].rv
           c == Len(channel)
           l == Len(stream)
           n == c + 2 + l
<1>1. /\ stream' = stream /\ mirror' = mirror /\ mode' = mode /\ objects' = objects
      /\ sending # <<>> /\ sending' = <<>> /\ channel' = channel \o sending
      /\ channel \in Seq(Message) /\ sending \in Seq(Message) /\ Len(sending) <= 1
      /\ stream \in Seq(Event) /\ c \in Nat /\ l \in Nat
  BY DEF Send, WatchOK, api
<1>2. /\ Len(channel') = c + 1 /\ channel'[c + 1] = sending[1]
      /\ \A i \in 1 .. c : channel'[i] = channel[i]
  BY <1>1
<1>3. WordsAre(k) /\ WordsAre(k)'
  BY WordsNow, WordsThen DEF AllWords
<1>4. /\ DOMAIN s = 1 .. n /\ s[1] = {mirror[k]} /\ s[c + 2] = OneWord(sending[1], k, x)
      /\ \A i \in 1 .. c : s[i + 1] = OneWord(channel[i], k, x)
      /\ \A i \in 1 .. l : s[c + 2 + i] = EventWord(mode, stream[i], k, x)
  <2>1. FirstWord(sending, k, x) = OneWord(sending[1], k, x)
    BY <1>1 DEF FirstWord
  <2> QED BY <1>3, <2>1 DEF WordsAre
<1>5. /\ DOMAIN r = 1 .. (c + 1) + 2 + l /\ r[1] = {mirror[k]} /\ r[(c + 1) + 2] = {}
      /\ \A i \in 1 .. c + 1 : r[i + 1] = OneWord(channel'[i], k, x)
      /\ \A i \in 1 .. l : r[(c + 1) + 2 + i] = EventWord(mode, stream[i], k, x)
  <2>1. FirstWord(sending', k, x) = {}
    BY <1>1 DEF FirstWord
  <2> QED BY <1>1, <1>2, <1>3, <2>1 DEF WordsAre
<1> HIDE DEF s, r, x, c, l
<1>6. (c + 1) + 2 \in 1 .. n + 1 /\ n \in Nat /\ (c + 1) + 2 + l = n + 1
  BY <1>1
<1>7. \A p \in 1 .. n : s[p] = IF p < (c + 1) + 2 THEN r[p] ELSE r[p + 1]
  <2> SUFFICES ASSUME NEW p \in 1 .. n
               PROVE  s[p] = IF p < (c + 1) + 2 THEN r[p] ELSE r[p + 1]
    OBVIOUS
  <2>1. CASE p = 1
    <3>1. p < (c + 1) + 2
      BY <1>1, <2>1
    <3> QED BY <1>4, <1>5, <2>1, <3>1
  <2>2. CASE p \in 2 .. c + 1
    <3>1. p - 1 \in 1 .. c /\ p - 1 \in 1 .. c + 1 /\ (p - 1) + 1 = p /\ p < (c + 1) + 2
      BY <1>1, <2>2
    <3> QED BY <1>2, <1>4, <1>5, <3>1
  <2>3. CASE p = c + 2
    <3>1. c + 1 \in 1 .. c + 1 /\ (c + 1) + 1 = p /\ p < (c + 1) + 2
      BY <1>1, <2>3
    <3>2. r[p] = OneWord(channel'[c + 1], k, x)
      BY <1>5, <3>1
    <3> QED BY <1>2, <1>4, <2>3, <3>1, <3>2
  <2>4. CASE p > c + 2
    <3> DEFINE i == p - (c + 2)
    <3>1. /\ i \in 1 .. l /\ c + 2 + i = p /\ (c + 1) + 2 + i = p + 1
          /\ ~(p < (c + 1) + 2)
      BY <1>1, <2>4
    <3> HIDE DEF i
    <3> QED BY <1>4, <1>5, <3>1
  <2> QED BY <1>1, <2>1, <2>2, <2>3, <2>4
<1> DEFINE d == (c + 1) + 2
<1>8. d \in 1 .. n + 1 /\ DOMAIN r = 1 .. n + 1 /\ r[d] = {}
      /\ \A p \in 1 .. n : s[p] = IF p < d THEN r[p] ELSE r[p + 1]
  BY <1>5, <1>6, <1>7
<1> HIDE DEF n, d
<1>9. n \in Nat /\ DOMAIN s = 1 .. n /\ EndsIn(s, v)
  BY <1>4, <1>6 DEF s
<1>10. EndsIn(r, v)
  BY <1>8, <1>9, Longer, Zenon
<1> QED BY <1>10 DEF r

\* What is received is what the reader knows next.
LEMMA ReceiveKeeps ==
  ASSUME WatchOK, WatchOK', Receive, NEW k \in Keys, NEW v, EndsIn(Words(k), v)
  PROVE  EndsIn(Words(k)', v)
<1> DEFINE s == Words(k)
           r == Words(k)'
           x == objects[k].rv
           c == Len(channel')
           l == Len(stream)
           n == c + 3 + l
           first == OneWord(channel[1], k, x)
           d == IF first = {} THEN 2 ELSE 1
<1>1. /\ stream' = stream /\ sending' = sending /\ mode' = mode /\ objects' = objects
      /\ channel # <<>> /\ mirror' = Learn(mirror, channel[1])
      /\ channel \in Seq(Message) /\ channel[1] \in Message
      /\ channel' \in Seq(Message) /\ Len(channel) = c + 1
      /\ \A i \in 1 .. c : channel'[i] = channel[i + 1]
      /\ sending \in Seq(Message) /\ stream \in Seq(Event) /\ c \in Nat /\ l \in Nat
      /\ mirror \in [Keys -> 0 .. clock]
  BY DEF Receive, WatchOK, api
<1>2. WordsAre(k) /\ WordsAre(k)'
  BY WordsNow, WordsThen DEF AllWords
<1>3. /\ DOMAIN s = 1 .. (c + 1) + 2 + l /\ s[1] = {mirror[k]}
      /\ s[(c + 1) + 2] = FirstWord(sending, k, x)
      /\ \A i \in 1 .. c + 1 : s[i + 1] = OneWord(channel[i], k, x)
      /\ \A i \in 1 .. l : s[(c + 1) + 2 + i] = EventWord(mode, stream[i], k, x)
  BY <1>1, <1>2 DEF WordsAre
<1>4. /\ DOMAIN r = 1 .. c + 2 + l /\ r[1] = {mirror'[k]} /\ r[c + 2] = FirstWord(sending, k, x)
      /\ \A i \in 1 .. c : r[i + 1] = OneWord(channel'[i], k, x)
      /\ \A i \in 1 .. l : r[c + 2 + i] = EventWord(mode, stream[i], k, x)
  BY <1>1, <1>2 DEF WordsAre
<1>5. {mirror'[k]} = IF first = {} THEN {mirror[k]} ELSE first
  <2>1. CASE channel[1].type = "Signal"
    BY <1>1, <2>1 DEF Learn, OneWord
  <2>2. CASE channel[1].type # "Signal"
    BY <1>1, <2>2 DEF Learn, OneWord
  <2> QED BY <2>1, <2>2
<1> HIDE DEF s, r, x, c, l, first
<1>6. /\ n \in Nat /\ n - 1 = c + 2 + l /\ (c + 1) + 2 + l = n
      /\ d \in 1 .. n /\ d \in {1, 2} /\ 2 \in 1 .. n
  BY <1>1
<1>7. s[2] = first
  BY <1>1, <1>3 DEF first
<1>8. \A p \in 1 .. n - 1 : r[p] = IF p < d THEN s[p] ELSE s[p + 1]
  <2>1. r[1] = IF 1 < d THEN s[1] ELSE s[1 + 1]
    BY <1>3, <1>4, <1>5, <1>7
  <2>2. ASSUME NEW p \in 2 .. n - 1 PROVE r[p] = s[p + 1]
    <3>1. CASE p \in 2 .. c + 1
      <4>1. p - 1 \in 1 .. c /\ p \in 1 .. c + 1 /\ (p - 1) + 1 = p
        BY <1>1, <3>1
      <4>2. r[p] = OneWord(channel'[p - 1], k, x) /\ channel'[p - 1] = channel[p]
        BY <1>1, <1>4, <4>1
      <4> QED BY <1>3, <4>1, <4>2
    <3>2. CASE p = c + 2
      <4>1. p + 1 = (c + 1) + 2
        BY <1>1, <3>2
      <4> QED BY <1>3, <1>4, <3>2, <4>1
    <3>3. CASE p > c + 2
      <4> DEFINE i == p - (c + 2)
      <4>1. i \in 1 .. l /\ c + 2 + i = p /\ (c + 1) + 2 + i = p + 1
        BY <1>1, <3>3
      <4> HIDE DEF i
      <4> QED BY <1>3, <1>4, <4>1
    <3> QED BY <1>1, <3>1, <3>2, <3>3
  <2>3. ASSUME NEW p \in 1 .. n - 1 PROVE r[p] = IF p < d THEN s[p] ELSE s[p + 1]
    <3>1. p = 1 \/ (p \in 2 .. n - 1 /\ ~(p < d))
      BY <1>6
    <3> QED BY <2>1, <2>2, <3>1
  <2> QED BY <2>3
<1>9. s[d] = {} \/ \E j \in 1 .. n : j > d /\ s[j] # {}
  BY <1>6, <1>7
<1> HIDE DEF n, d
<1>10. /\ n \in Nat /\ d \in 1 .. n /\ DOMAIN s = 1 .. n /\ DOMAIN r = 1 .. n - 1
       /\ EndsIn(s, v)
  BY <1>3, <1>4, <1>6 DEF s
<1>11. EndsIn(r, v)
  BY <1>8, <1>9, <1>10, Shorter, Zenon
<1> QED BY <1>11 DEF r

\* The list tells of every selected object, and of no other.
LEMMA StartFaith ==
  ASSUME HelpersInv, WatchOK, WatchOK', StartWatch, NEW k \in Keys, NEW v \in Wanted(k)'
  PROVE  EndsIn(Words(k)', v)
<1> DEFINE r == Words(k)'
           x == objects[k].rv
<1>1. /\ channel' = <<>> /\ sending' = <<>> /\ mode' = mode /\ objects' = objects
      /\ mirror'[k] = 0
  BY DEF StartWatch, WatchOK
<1>2. PICK w \in {"labelled", "all"} :
        /\ watched' = w
        /\ stream' = Listing({l \in Live : w = "all" \/ Owner \in objects[l].labels})
  BY DEF StartWatch, Listing
<1> DEFINE ls == {l \in Live : w = "all" \/ Owner \in objects[l].labels}
           q == Listing(ls)
<1>3. Wanted(k)' = IF k \in ls THEN {x} ELSE IF mode = "events" THEN {0} ELSE {}
  <2>1. Selected(objects[k])' <=> k \in ls
    BY <1>1, <1>2 DEF Selected, Live, Exists
  <2> QED BY <1>1, <2>1 DEF Wanted
<1>4. ls \in SUBSET Live /\ stream' = q
  BY <1>2
<1> HIDE DEF ls
<1>5. /\ \A i \in DOMAIN q :
           \/ q[i].type \in {"Init", "InitDone"}
           \/ /\ q[i].type = "InitApply" /\ q[i].key \in ls /\ q[i].rv = objects[q[i].key].rv
      /\ \A l \in ls : \E i \in DOMAIN q :
           /\ q[i].type = "InitApply" /\ q[i].key = l
           /\ \A j \in DOMAIN q : j > i => q[j].type = "InitDone" \/ q[j].key # l
      /\ ls # {} => \E i \in DOMAIN q :
           /\ q[i].type = "InitApply"
           /\ \A j \in DOMAIN q : j > i => q[j].type = "InitDone"
  BY <1>4, ListingOK, Zenon DEF HelpersInv
<1> HIDE DEF q
<1>6. q \in Seq(Event) /\ DOMAIN q = 1 .. Len(q) /\ Len(q) \in Nat
  BY <1>4 DEF WatchOK
<1>7. /\ DOMAIN r = 1 .. 2 + Len(q) /\ r[1] = {0} /\ r[2] = {}
      /\ \A i \in 1 .. Len(q) : r[2 + i] = EventWord(mode, q[i], k, x)
  <2>1. WordsAre(k)'
    BY WordsThen DEF AllWords
  <2>2. Len(channel') = 0 /\ FirstWord(sending', k, x) = {}
    BY <1>1 DEF FirstWord
  <2> QED BY <1>1, <1>4, <1>6, <2>1, <2>2 DEF WordsAre
<1> HIDE DEF r, x
<1>8. ASSUME NEW i \in DOMAIN q, EventWord(mode, q[i], k, x) = {v},
             \A j \in DOMAIN q : j > i => EventWord(mode, q[j], k, x) = {}
      PROVE  EndsIn(r, v)
  <2> DEFINE p == 2 + i
  <2>1. p \in DOMAIN r /\ r[p] = {v}
    BY <1>6, <1>7, <1>8
  <2>2. ASSUME NEW t \in DOMAIN r, t > p PROVE r[t] = {}
    <3> DEFINE j == t - 2
    <3>1. j \in 1 .. Len(q) /\ 2 + j = t /\ j > i
      BY <1>6, <1>7, <2>2
    <3> HIDE DEF j
    <3> QED BY <1>6, <1>7, <1>8, <3>1
  <2> HIDE DEF p
  <2> QED BY <2>1, <2>2 DEF EndsIn
<1>9. CASE k \in ls /\ mode = "signal"
  <2>1. PICK i \in DOMAIN q : /\ q[i].type = "InitApply"
                              /\ \A j \in DOMAIN q : j > i => q[j].type = "InitDone"
    BY <1>5, <1>9
  <2>2. v = x
    BY <1>3, <1>9
  <2>3. EventWord(mode, q[i], k, x) = {v}
    BY <1>9, <2>1, <2>2 DEF EventWord
  <2>4. \A j \in DOMAIN q : j > i => EventWord(mode, q[j], k, x) = {}
    BY <2>1 DEF EventWord
  <2> QED BY <1>8, <2>3, <2>4 DEF r
<1>10. CASE k \in ls /\ mode # "signal"
  <2>1. PICK i \in DOMAIN q :
          /\ q[i].type = "InitApply" /\ q[i].key = k
          /\ \A j \in DOMAIN q : j > i => q[j].type = "InitDone" \/ q[j].key # k
    BY <1>5, <1>10
  <2>2. v = x /\ q[i].rv = x
    BY <1>3, <1>5, <1>10, <2>1 DEF x
  <2>3. EventWord(mode, q[i], k, x) = {v}
    BY <1>10, <2>1, <2>2 DEF EventWord
  <2>4. ASSUME NEW j \in DOMAIN q, j > i PROVE EventWord(mode, q[j], k, x) = {}
    <3>1. q[j].type = "InitDone" \/ q[j].key # k
      BY <2>1, <2>4
    <3>2. q[j].type \in {"Init", "InitDone", "InitApply"}
      BY <1>5
    <3> QED BY <1>10, <3>1, <3>2 DEF EventWord
  <2> QED BY <1>8, <2>3, <2>4 DEF r
<1>11. CASE k \notin ls
  <2>1. v = 0 /\ mode = "events"
    BY <1>3, <1>11
  <2>2. \A i \in DOMAIN q : EventWord(mode, q[i], k, x) = {}
    <3>1. ASSUME NEW i \in DOMAIN q PROVE EventWord(mode, q[i], k, x) = {}
      <4>1. q[i].type \in {"Init", "InitDone"} \/ (q[i].type = "InitApply" /\ q[i].key # k)
        BY <1>5, <1>11
      <4> QED BY <2>1, <4>1 DEF EventWord
    <3> QED BY <3>1
  <2>3. ASSUME NEW t \in DOMAIN r, t > 1 PROVE r[t] = {}
    <3>1. CASE t = 2
      BY <1>7, <3>1
    <3>2. CASE t > 2
      <4> DEFINE j == t - 2
      <4>1. j \in 1 .. Len(q) /\ 2 + j = t
        BY <1>6, <1>7, <3>2
      <4> HIDE DEF j
      <4> QED BY <1>6, <1>7, <2>2, <4>1
    <3> QED BY <1>7, <2>3, <3>1, <3>2
  <2>4. 1 \in DOMAIN r /\ r[1] = {v}
    BY <1>6, <1>7, <2>1
  <2>5. EndsIn(r, v)
    BY <2>3, <2>4 DEF EndsIn
  <2> QED BY <2>5 DEF r
<1> QED BY <1>9, <1>10, <1>11

LEMMA FaithStep == TypeInv /\ TypeInv' /\ FaithInv /\ [Next]_vars => FaithInv'
<1> SUFFICES ASSUME TypeInv, TypeInv', FaithInv, [Next]_vars, watcher' = "running", open',
                    NEW k \in Keys, NEW v \in Wanted(k)'
             PROVE  EndsIn(Words(k)', v)
  BY DEF FaithInv
<1>1. /\ HelpersInv /\ HeldInv /\ WatchOK /\ HelpersInv' /\ HeldInv' /\ WatchOK'
  BY DEF TypeInv, HelpersInv
<1>2. ASSUME watcher = "running", open
      PROVE  \A u \in Wanted(k) : EndsIn(Words(k), u)
  BY <1>2 DEF FaithInv
<1>3. ASSUME UNCHANGED <<objects, watched, mode>> PROVE Wanted(k)' = Wanted(k)
  BY <1>3 DEF Wanted, Selected
<1>4. CASE Outsiders \/ FinalizersStep \/ GcStep \/ ResourcesStep
  <2>1. OneWrite /\ UNCHANGED watcherVars
    BY <1>1, <1>4, HelpersWrite
  <2>2. watcher = "running" /\ open
    BY <2>1 DEF watcherVars
  <2> QED BY <1>1, <1>2, <2>1, <2>2, WriteKeeps
<1>5. CASE StartWatch
  BY <1>1, <1>5, StartFaith
<1>6. CASE TakeEvent
  <2>1. watcher = "running" /\ open /\ UNCHANGED <<objects, watched, mode>>
    BY <1>6 DEF TakeEvent
  <2> QED BY <1>1, <1>2, <1>3, <1>6, <2>1, TakeKeeps
<1>7. CASE Send
  <2>1. watcher = "running" /\ open /\ UNCHANGED <<objects, watched, mode>>
    BY <1>7 DEF Send, api
  <2> QED BY <1>1, <1>2, <1>3, <1>7, <2>1, SendKeeps
<1>8. CASE Receive
  <2>1. watcher = "running" /\ open /\ UNCHANGED <<objects, watched, mode>>
    BY <1>8 DEF Receive, api
  <2> QED BY <1>1, <1>2, <1>3, <1>8, <2>1, ReceiveKeeps
<1>9. ~WatchFails /\ ~DropReceiver
  BY DEF WatchFails, DropReceiver
<1>10. CASE UNCHANGED vars
  <2>1. OneWrite /\ UNCHANGED watcherVars
    BY <1>10 DEF vars, api, OneWrite, Untouched
  <2>2. watcher = "running" /\ open
    BY <2>1 DEF watcherVars
  <2> QED BY <1>1, <1>2, <2>1, <2>2, WriteKeeps
<1> QED BY <1>4, <1>5, <1>6, <1>7, <1>8, <1>9, <1>10 DEF Next, WatchersStep, WatchersNext

\* While the task runs, a reader that receives all that is on its way knows the
\* latest version of every selected object, and, of watch_events, that the
\* others are gone, however the writes fall between the list, the events taken,
\* the messages sent and those received (watcher.rs:215-221).
THEOREM ReaderCatchesUp == Spec => []WatchFaithful
<1>1. Init => FaithInv
  BY DEF Init, InitWatchers, FaithInv
<1>2. FaithInv => WatchFaithful
  <2> SUFFICES ASSUME FaithInv, watcher = "running", open, NEW k \in Keys
               PROVE  IF Selected(objects[k]) THEN LastWord(k, objects[k].rv)
                      ELSE mode = "events" => LastWord(k, 0)
    BY DEF WatchFaithful
  <2>1. \A v \in Wanted(k) : EndsIn(Words(k), v)
    BY DEF FaithInv
  <2>2. \A v : EndsIn(Words(k), v) => LastWord(k, v)
    BY DEF EndsIn, LastWord
  <2> QED BY <2>1, <2>2 DEF Wanted
<1> QED BY <1>1, <1>2, TypeInvAlways, FaithStep, PTL DEF Spec
=============================================================================
