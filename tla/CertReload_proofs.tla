-------------------------- MODULE CertReload_proofs --------------------------
(***************************************************************************)
(* Theorems about CertReload, for any number of concurrent handshakes and  *)
(* of rotations.                                                           *)
(***************************************************************************)
EXTENDS CertReload, TLAPS

\* A step is one of the files, of the clock, of a handshake or of a load.
LEMMA StepCases ==
  ASSUME [Next]_vars
  PROVE  \/ Issue \/ Swap \/ IntervalElapses \/ Restart
         \/ \E f \in Files : Truncate(f) \/ Write(f)
         \/ \E h \in Handshakes : Hello(h) \/ Check(h) \/ Acquire(h) \/ Resolve(h)
         \/ \E x \in Loaders : LoadStep(x)
         \/ UNCHANGED vars
BY DEF Next, HandshakeStep, Loaders

\* Every variable keeps its type, and a handshake reads the files exactly while
\* it holds the write lock.
THEOREM TypeCorrect == Spec => []TypeOK
<1>1. Init => TypeOK
  <2> SUFFICES ASSUME Init PROVE TypeOK
    OBVIOUS
  <2>1. /\ file \in [Files -> [content : Nat, mtime : Nat]]
        /\ seen \in [Files -> Nat]
        /\ timed \in [Loaders -> [Files -> Nat]]
        /\ read \in [Loaders -> [Files -> Nat]]
    BY DEF Init, Nothing
  <2>2. at \in [Loaders -> Stages] /\ LockOK
    BY LoadersAssumption DEF Init, LockOK, Loaders, Stages, Loading
  <2> QED
    BY <2>1, <2>2 DEF Init, TypeOK, Loaders, Torn
<1>2. TypeOK /\ [Next]_vars => TypeOK'
  <2> SUFFICES ASSUME TypeOK, [Next]_vars PROVE TypeOK'
    OBVIOUS
  <2> USE LoadersAssumption DEF TypeOK
  <2>1. CASE Issue \/ Swap \/ IntervalElapses \/ UNCHANGED vars
    <3>1. UNCHANGED <<lock, at, timed, read, pair, seen>>
      BY <2>1 DEF Issue, Swap, IntervalElapses, vars, fs, work
    <3>2. file' \in [Files -> [content : Nat, mtime : Nat]] /\ issued' \in Nat
      BY <2>1 DEF Issue, Swap, IntervalElapses, vars, fs
    <3>3. due' \in BOOLEAN
      BY <2>1 DEF Issue, Swap, IntervalElapses, vars, fs
    <3> QED
      BY <3>1, <3>2, <3>3 DEF LockOK
  <2>2. CASE Restart
    BY <2>2 DEF Restart, Go, Loaders, Stages, Loading, fs, work, LockOK
  <2>3. CASE \E f \in Files : Truncate(f) \/ Write(f)
    BY <2>3 DEF Truncate, Write, Put, Torn, Files, work, LockOK
  <2>4. CASE \E h \in Handshakes : Hello(h) \/ Check(h) \/ Acquire(h) \/ Resolve(h)
    <3>1. PICK h \in Handshakes : Hello(h) \/ Check(h) \/ Acquire(h) \/ Resolve(h)
      BY <2>4
    <3> USE DEF Go, NotLocked, Loaders, Stages, Loading, fs, work, LockOK
    <3>2. CASE Hello(h) \/ Check(h)
      BY <3>2 DEF Hello, Check
    <3>3. CASE Acquire(h)
      <4>1. lock = Startup /\ at[h] = "Acquire" /\ h # Startup /\ due' = FALSE
            /\ UNCHANGED <<file, issued, timed, read, pair, seen>>
        BY <3>3 DEF Acquire
      <4>2. CASE at' = [at EXCEPT ![h] = "StatCert"] /\ lock' = h
        BY <4>1, <4>2
      <4>3. CASE at' = [at EXCEPT ![h] = "Resolve"] /\ lock' = lock
        BY <4>1, <4>3
      <4> QED BY <3>3, <4>2, <4>3 DEF Acquire
    <3>4. CASE Resolve(h)
      BY <3>4 DEF Resolve
    <3> QED BY <3>1, <3>2, <3>3, <3>4
  <2>5. CASE \E x \in Loaders : LoadStep(x)
    <3> SUFFICES ASSUME NEW x \in Loaders, LoadStep(x) PROVE TypeOK'
      BY <2>5
    <3>0. Nothing \in [Files -> Nat] /\ {"cert", "key"} = Files
      BY DEF Nothing, Files
    <3>1. CASE StatCert(x)
      <4>1. timed' \in [Loaders -> [Files -> Nat]]
        BY <3>1, <3>0 DEF StatCert, Timed
      <4>2. at' \in [Loaders -> Stages] /\ LockOK'
        BY <3>1 DEF StatCert, Go, Loaders, Stages, Loading, LockOK
      <4> QED
        BY <3>1, <4>1, <4>2 DEF StatCert, fs
    <3>2. ASSUME NEW stage \in {"Resolve", "Failed"}, at[x] \in Loading,
                 Leave(x, stage), UNCHANGED <<fs, due>>,
                 pair' \in Nat, seen' \in [Files -> Nat],
                 stage = "Failed" => x = Startup
          PROVE  TypeOK'
      <4>1. timed' \in [Loaders -> [Files -> Nat]] /\ read' \in [Loaders -> [Files -> Nat]]
        BY <3>2, <3>0 DEF Leave
      <4>2. at' \in [Loaders -> Stages] /\ lock' \in Loaders
        BY <3>2 DEF Leave, Go, Loaders, Stages, Loading
      <4>3. LockOK'
        BY <3>2 DEF Leave, Go, Loaders, Stages, Loading, LockOK
      <4> QED
        BY <3>2, <4>1, <4>2, <4>3 DEF fs
    <3>3. CASE StatKey(x)
      <4>1. CASE Leave(x, "Resolve")
        BY <3>2, <3>3, <4>1 DEF StatKey, Loading
      <4>2. CASE timed' = [timed EXCEPT ![x] = Timed(x, "key")]
                   /\ Go(x, "ReadCert") /\ UNCHANGED <<lock, read>>
        <5>1. timed' \in [Loaders -> [Files -> Nat]]
          BY <4>2, <3>0 DEF Timed
        <5>2. at' \in [Loaders -> Stages] /\ LockOK'
          BY <3>3, <4>2 DEF StatKey, Go, Loaders, Stages, Loading, LockOK
        <5> QED
          BY <3>3, <4>2, <5>1, <5>2 DEF StatKey, fs
      <4> QED
        BY <3>3, <4>1, <4>2 DEF StatKey
    <3>4. ASSUME NEW f \in Files, NEW stage \in {"ReadKey", "Loaded"},
                 at[x] \in Loading, Read(x, f, stage)
          PROVE  TypeOK'
      <4>1. read' \in [Loaders -> [Files -> Nat]]
        BY <3>4 DEF Read
      <4>2. at' \in [Loaders -> Stages] /\ LockOK'
        BY <3>4 DEF Read, Go, Loaders, Stages, Loading, LockOK
      <4> QED
        BY <3>4, <4>1, <4>2 DEF Read, fs
    <3>5. CASE ReadCert(x) \/ ReadKey(x)
      BY <3>4, <3>5, <3>0 DEF ReadCert, ReadKey, Loading
    <3>6. CASE Install(x)
      <4>1. pair' \in Nat /\ seen' \in [Files -> Nat]
        BY <3>6, <3>0 DEF Install
      <4> QED
        BY <3>2, <3>6, <4>1 DEF Install, Loading
    <3>7. CASE Keep(x)
      BY <3>2, <3>7 DEF Keep, Loading
    <3> QED
      BY <3>1, <3>3, <3>5, <3>6, <3>7 DEF LoadStep
  <2> QED
    BY <2>1, <2>2, <2>3, <2>4, <2>5, StepCases
<1> QED
  BY <1>1, <1>2, PTL DEF Spec

\* The files only ever get newer times, and what changes gets a newer one.
LEMMA FilesStep ==
  ASSUME TypeOK, Swap \/ \E f \in Files : Truncate(f) \/ Write(f)
  PROVE  /\ UNCHANGED <<issued, due, lock, at, timed, read, pair, seen>>
         /\ \A f \in Files :
              /\ file'[f].mtime \in Nat
              /\ file'[f] = file[f] \/ file[f].mtime < file'[f].mtime
              /\ file'[f].content \in {file[f].content, issued, Torn}
<1> USE DEF TypeOK
<1>1. UNCHANGED <<issued, due, lock, at, timed, read, pair, seen>>
  BY DEF Swap, Truncate, Write, work
<1>2. CASE Swap
  BY <1>1, <1>2 DEF Swap
<1>3. CASE \E f \in Files : Truncate(f) \/ Write(f)
  <2>1. PICK g \in Files, c \in {issued, Torn} : Put(g, c)
    BY <1>3 DEF Truncate, Write
  <2>2. /\ file'[g] = [content |-> c, mtime |-> file[g].mtime + 1]
        /\ \A f \in Files \ {g} : file'[f] = file[f]
        /\ \A f \in Files : file[f].mtime \in Nat
    BY <2>1 DEF Put
  <2> QED
    BY <1>1, <2>2
<1> QED
  BY <1>2, <1>3

\* A load reads a time before the content that goes with it.
LEMMA TimesStep == TypeOK /\ TimesOK /\ [Next]_vars => TimesOK'
<1> SUFFICES ASSUME TypeOK, TimesOK, [Next]_vars PROVE TimesOK'
  OBVIOUS
<1> USE LoadersAssumption
<1>1. CASE Swap \/ \E f \in Files : Truncate(f) \/ Write(f)
  <2> SUFFICES ASSUME NEW f \in Files,
                      NEW x \in Loaders
               PROVE  /\ seen'[f] <= file'[f].mtime
                      /\ pair' # Torn /\ file'[f].content # pair' =>
                           seen'[f] < file'[f].mtime
                      /\ at'[x] \in HasTime(f) => timed'[x][f] <= file'[f].mtime
                      /\ at'[x] \in HasRead(f) /\ read'[x][f] # file'[f].content =>
                           timed'[x][f] < file'[f].mtime
    BY Zenon DEF TimesOK, Loaders, HasTime, HasRead
  <2>1. /\ UNCHANGED <<at, timed, read, pair, seen>>
        /\ file'[f].mtime \in Nat
        /\ file'[f] = file[f] \/ file[f].mtime < file'[f].mtime
    BY <1>1, FilesStep
  <2>2. file[f].mtime \in Nat /\ seen[f] \in Nat /\ timed[x][f] \in Nat
    BY DEF TypeOK
  <2>3. HasRead(f) \subseteq HasTime(f)
    BY DEF HasRead, HasTime, Loading
  <2> QED
    BY <2>1, <2>2, <2>3 DEF TimesOK
<1>2. ASSUME UNCHANGED <<file, timed, read, pair, seen>>,
             \A x \in Loaders : at'[x] \in Loading => at'[x] = "StatCert" \/ at'[x] = at[x]
      PROVE  TimesOK'
  BY <1>2 DEF TimesOK, HasTime, HasRead, Loading
<1>3. CASE Issue \/ IntervalElapses \/ UNCHANGED vars
  BY <1>2, <1>3 DEF Issue, IntervalElapses, vars, fs, work
<1>4. CASE Restart
  BY <1>2, <1>4 DEF Restart, Go, fs, work, TypeOK
<1>5. CASE \E h \in Handshakes : Hello(h) \/ Check(h) \/ Acquire(h) \/ Resolve(h)
  <2> PICK h \in Handshakes : Hello(h) \/ Check(h) \/ Acquire(h) \/ Resolve(h)
    BY <1>5
  <2>1. UNCHANGED <<file, timed, read, pair, seen>>
    BY DEF Hello, Check, Acquire, Resolve, fs, work
  <2>2. PICK stage \in {"Check", "Acquire", "Resolve", "StatCert", "None"} :
          at' = [at EXCEPT ![h] = stage]
    BY DEF Hello, Check, Acquire, Resolve, Go
  <2> QED
    BY <1>2, <2>1, <2>2 DEF TypeOK, Loading
<1>6. CASE \E x \in Loaders : LoadStep(x)
  <2> SUFFICES ASSUME NEW x \in Loaders, LoadStep(x) PROVE TimesOK'
    BY <1>6
  <2>1. CASE StatCert(x)
    BY <2>1 DEF StatCert, Timed, Go, fs, TypeOK, TimesOK, HasTime, HasRead, Loading, Files
  <2>2. ASSUME NEW stage, stage \notin Loading, Leave(x, stage),
               UNCHANGED <<file, pair, seen>>
        PROVE  TimesOK'
    BY <2>2 DEF Leave, Go, TypeOK, TimesOK, HasTime, HasRead, Loading
  <2>3. CASE StatKey(x)
    <3>1. CASE Leave(x, "Resolve")
      BY <2>2, <2>3, <3>1 DEF StatKey, fs, Loading
    <3>2. CASE Go(x, "ReadCert") /\ timed' = [timed EXCEPT ![x] = Timed(x, "key")]
                 /\ UNCHANGED read
      <4>1. /\ at[x] = "StatKey" /\ UNCHANGED <<file, read, pair, seen>>
            /\ at'[x] = "ReadCert"
            /\ timed'[x]["cert"] = timed[x]["cert"]
            /\ timed'[x]["key"] = file["key"].mtime
            /\ \A y \in Loaders \ {x} : at'[y] = at[y] /\ timed'[y] = timed[y]
        BY <2>3, <3>2 DEF StatKey, Timed, Go, fs, TypeOK, Files
      <4>2. file["key"].mtime \in Nat
        BY DEF TypeOK, Files
      <4> QED
        BY <4>1, <4>2 DEF TimesOK, HasTime, HasRead, Loading, Files
    <3> QED
      BY <2>3, <3>1, <3>2 DEF StatKey
  <2>4. CASE ReadCert(x)
    BY <2>4
    DEF ReadCert, Read, Go, fs, TypeOK, TimesOK, HasTime, HasRead, Loading, Files
  <2>5. CASE ReadKey(x)
    BY <2>5
    DEF ReadKey, Read, Go, fs, TypeOK, TimesOK, HasTime, HasRead, Loading, Files
  <2>6. CASE Install(x)
    <3>1. \A f \in Files : /\ seen'[f] = timed[x][f] /\ pair' = read[x][f]
                           /\ at[x] \in HasTime(f) \cap HasRead(f)
      BY <2>6 DEF Install, Fit, HasTime, HasRead, Loading, Files
    <3>2. \A f \in Files : /\ seen'[f] <= file[f].mtime
                           /\ file[f].content # pair' => seen'[f] < file[f].mtime
      BY <3>1 DEF TimesOK
    <3> QED
      BY <2>6, <3>2 DEF Install, Leave, Go, fs, TypeOK, TimesOK, HasTime, HasRead, Loading
  <2>7. CASE Keep(x)
    BY <2>2, <2>7 DEF Keep, fs, Loading
  <2> QED
    BY <2>1, <2>3, <2>4, <2>5, <2>6, <2>7 DEF LoadStep
<1> QED
  BY <1>1, <1>3, <1>4, <1>5, <1>6, StepCases

\* While a file differs from the pair that is served, its modification time
\* differs from the one remembered: the next check loads again.
THEOREM NoRotationOverlooked == Spec => []RotationNoticed
<1>1. Init => TimesOK
  <2> SUFFICES ASSUME Init PROVE TimesOK
    OBVIOUS
  <2>1. /\ \A f \in Files : file[f].mtime = 1 /\ seen[f] = 0
        /\ \A x \in Loaders : at[x] \in {"None", "StatCert"}
        /\ pair = Torn
    BY DEF Init, Nothing
  <2> QED
    BY <2>1 DEF TimesOK, HasTime, HasRead, Loading
<1>2. TypeOK /\ TimesOK => RotationNoticed
  BY DEF TypeOK, TimesOK, RotationNoticed
<1> QED
  BY <1>1, <1>2, TimesStep, TypeCorrect, PTL DEF Spec

\* What is read while the lock is held is not older than the pair.
LEMMA OrderStep == TypeOK /\ OrderOK /\ [Next]_vars => OrderOK'
<1> SUFFICES ASSUME TypeOK, OrderOK, [Next]_vars PROVE OrderOK'
  OBVIOUS
<1> USE LoadersAssumption
<1>0. pair \in Nat /\ issued \in Nat /\ issued + 1 \in Nat
  BY DEF TypeOK
<1>1. CASE Swap \/ \E f \in Files : Truncate(f) \/ Write(f)
  <2>1. /\ UNCHANGED <<issued, at, read, pair>>
        /\ \A f \in Files : file'[f].content \in {file[f].content, issued, Torn}
    BY <1>1, FilesStep
  <2>2. ASSUME NEW f \in Files
        PROVE  /\ file'[f].content \in {Torn} \cup pair .. issued
               /\ \A x \in Loaders : at[x] \in HasRead(f) =>
                    /\ read[x][f] \in {Torn} \cup pair .. issued
                    /\ file'[f].content # Torn => read[x][f] <= file'[f].content
    BY <1>0, <2>1 DEF OrderOK, Torn
  <2> QED
    BY <1>0, <2>1, <2>2 DEF OrderOK, HasRead
<1>2. CASE Issue
  BY <1>2, <1>0 DEF Issue, OrderOK, work
<1>3. ASSUME UNCHANGED <<file, issued, read, pair>>,
             \A x \in Loaders : at'[x] \in {"ReadKey", "Loaded"} => at'[x] = at[x],
             at'[Startup] # "Resolve" => at[Startup] # "Resolve"
      PROVE  OrderOK'
  BY <1>3 DEF OrderOK, HasRead
<1>4. CASE IntervalElapses \/ UNCHANGED vars
  BY <1>3, <1>4 DEF IntervalElapses, vars, fs, work
<1>5. CASE Restart
  BY <1>3, <1>5 DEF Restart, Go, fs, work, TypeOK
<1>6. CASE \E h \in Handshakes : Hello(h) \/ Check(h) \/ Acquire(h) \/ Resolve(h)
  <2> PICK h \in Handshakes : Hello(h) \/ Check(h) \/ Acquire(h) \/ Resolve(h)
    BY <1>6
  <2>1. UNCHANGED <<file, issued, read, pair>>
    BY DEF Hello, Check, Acquire, Resolve, fs, work
  <2>2. PICK stage \in {"Check", "Acquire", "Resolve", "StatCert", "None"} :
          at' = [at EXCEPT ![h] = stage]
    BY DEF Hello, Check, Acquire, Resolve, Go
  <2> QED
    BY <1>3, <2>1, <2>2 DEF TypeOK, Loaders
<1>7. CASE \E x \in Loaders : LoadStep(x)
  <2> SUFFICES ASSUME NEW x \in Loaders, LoadStep(x) PROVE OrderOK'
    BY <1>7
  <2>1. CASE StatCert(x)
    BY <1>3, <2>1 DEF StatCert, Go, fs, TypeOK, Loaders
  <2>2. ASSUME NEW stage \in {"Resolve", "Failed"}, Leave(x, stage), at[x] \in Loading,
               UNCHANGED <<file, issued, pair>>
        PROVE  OrderOK'
    <3>1. \A y \in Loaders : at'[y] \in {"ReadKey", "Loaded"} =>
                               at'[y] = at[y] /\ read'[y] = read[y]
      BY <2>2 DEF Leave, Go, TypeOK
    <3>2. at'[Startup] # "Resolve" => at[Startup] # "Resolve"
      BY <2>2 DEF Leave, Go, TypeOK, Loading, Loaders
    <3> QED
      BY <2>2, <3>1, <3>2 DEF OrderOK, HasRead
  <2>3. CASE StatKey(x)
    <3>1. CASE Leave(x, "Resolve")
      BY <2>2, <2>3, <3>1 DEF StatKey, fs, Loading
    <3>2. CASE Go(x, "ReadCert") /\ UNCHANGED read
      BY <1>3, <2>3, <3>2 DEF StatKey, Go, fs, TypeOK, Loaders
    <3> QED
      BY <2>3, <3>1, <3>2 DEF StatKey
  <2>4. ASSUME NEW f \in Files, NEW stage \in {"ReadKey", "Loaded"},
               stage = "ReadKey" => f = "cert",
               stage = "Loaded" => f = "key" /\ at[x] = "ReadKey",
               at[x] # "Resolve", Read(x, f, stage)
        PROVE  OrderOK'
    <3>1. /\ UNCHANGED <<file, issued, pair>>
          /\ at'[x] = stage /\ read'[x][f] = file[f].content
          /\ \A g \in Files \ {f} : read'[x][g] = read[x][g]
          /\ \A y \in Loaders \ {x} : at'[y] = at[y] /\ read'[y] = read[y]
      BY <2>4 DEF Read, Go, fs, TypeOK
    <3> QED
      BY <2>4, <3>1 DEF OrderOK, HasRead, Files, Loaders
  <2>5. CASE ReadCert(x) \/ ReadKey(x)
    BY <2>4, <2>5 DEF ReadCert, ReadKey, Files
  <2>6. CASE Install(x)
    <3>1. /\ pair' = read[x]["cert"] /\ pair' # Torn
          /\ at[x] = "Loaded" /\ at'[x] = "Resolve" /\ UNCHANGED <<file, issued>>
      BY <2>6 DEF Install, Leave, Go, Fit, fs, TypeOK
    <3>2. pair' \in pair .. issued
      BY <3>1 DEF OrderOK, HasRead, Files
    <3>3. at'[Startup] = "Resolve"
      <4>1. CASE x = Startup
        BY <3>1, <4>1
      <4>2. CASE x # Startup
        BY <2>6, <3>1, <4>2 DEF Install, Leave, Go, TypeOK, LockOK, Loaders
      <4> QED
        BY <4>1, <4>2
    <3>4. \A y \in Loaders : at'[y] \notin {"ReadKey", "Loaded"}
      <4> SUFFICES ASSUME NEW y \in Loaders, y # x, at[y] \in {"ReadKey", "Loaded"}
                   PROVE  FALSE
        BY <2>6, <3>1 DEF Install, Leave, Go, TypeOK
      <4> QED
        BY <3>1 DEF TypeOK, LockOK, Loaders, Loading
    <3>5. ASSUME NEW f \in Files PROVE file[f].content \in {Torn} \cup pair' .. issued
      <4>1. pair' = read[x][f] /\ at[x] \in HasRead(f)
        BY <2>6, <3>1 DEF Install, Fit, HasRead, Files
      <4> QED
        BY <1>0, <3>1, <4>1 DEF OrderOK, TypeOK
    <3> QED
      BY <1>0, <3>1, <3>2, <3>3, <3>4, <3>5 DEF OrderOK, HasRead, Files
  <2>7. CASE Keep(x)
    <3>1. PICK stage \in {"Resolve", "Failed"} : Leave(x, stage)
      BY <2>7 DEF Keep
    <3> QED
      BY <2>2, <2>7, <3>1 DEF Keep, fs, Loading
  <2> QED
    BY <2>1, <2>3, <2>5, <2>6, <2>7 DEF LoadStep
<1> QED
  BY <1>1, <1>2, <1>4, <1>5, <1>6, <1>7, StepCases

\* Handshakes that load at the same time never bring back an older pair.
THEOREM PairsOnlyAdvance == Spec => NeverOlder
<1>1. Init => OrderOK
  BY DEF Init, OrderOK, HasRead, Torn
<1>2. TypeOK /\ OrderOK /\ [Next]_vars => [pair' >= pair]_vars
  <2> SUFFICES ASSUME TypeOK, OrderOK, [Next]_vars PROVE pair' >= pair
    OBVIOUS
  <2>0. pair \in Nat
    BY DEF TypeOK
  <2>1. CASE \E x \in Loaders : Install(x)
    <3>1. PICK x \in Loaders : Install(x)
      BY <2>1
    <3>2. at[x] \in HasRead("cert") /\ pair' = read[x]["cert"] /\ pair' # Torn
      BY <3>1 DEF Install, Fit, HasRead
    <3> QED
      BY <2>0, <3>2 DEF OrderOK, TypeOK, Files
  <2>2. CASE UNCHANGED pair
    BY <2>0, <2>2
  <2> QED
    BY <2>1, <2>2, StepCases
    DEF Issue, Swap, IntervalElapses, Restart, Truncate, Write, Hello, Check, Acquire,
        Resolve, LoadStep, StatCert, StatKey, ReadCert, ReadKey, Read, Keep, vars
<1> QED
  BY <1>1, <1>2, OrderStep, TypeCorrect, PTL DEF Spec, NeverOlder
=============================================================================
