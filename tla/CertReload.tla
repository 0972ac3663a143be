------------------------------ MODULE CertReload ------------------------------
(***************************************************************************)
(* ReloadingCertResolver (crates/koprs-admission/src/tls.rs): TLS          *)
(* handshakes share a certificate and key that are loaded from two files,  *)
(* and look at the files again when the check interval has elapsed.        *)
(*                                                                         *)
(* The files are replaced while they are read: one after the other, each   *)
(* truncated before it is written, or both at once when kubelet swaps a    *)
(* symlink.  Every modification time and every content is read by a system *)
(* call of its own.  Pairs are numbered in the order they are issued; a    *)
(* certificate and a key fit when they have the same number.  Every change *)
(* of a file gives it a newer modification time: two changes within the    *)
(* resolution of the file system's clock are not modelled.                 *)
(***************************************************************************)
EXTENDS Naturals

CONSTANTS
  Handshakes,    \* slots for TLS handshakes; a slot is used again
  Startup,       \* ReloadingCertResolver::new
  MaxPairs       \* bound: pairs issued

ASSUME LoadersAssumption == Startup \notin Handshakes /\ MaxPairs \in Nat \ {0}

VARIABLES
  file,      \* the content of each file and its modification time
  issued,    \* the newest pair
  due,       \* last_check.elapsed() >= reload_interval
  lock,      \* who holds the write lock of the state, Startup when nobody does
  at,        \* where each loader is
  timed,     \* the modification times a loader has read so far
  read,      \* the contents it has read so far
  pair,      \* LoadedState.key: the pair that is served
  seen       \* LoadedState.cert_mtime and key_mtime

fs == <<file, issued>>
work == <<timed, read>>
vars == <<fs, due, lock, at, work, pair, seen>>

Loaders == Handshakes \cup {Startup}
Files == {"cert", "key"}
Torn == 0                   \* the content of a file that was only truncated
Nothing == [f \in Files |-> 0]

\* Stages of a load; the lock is held in them (but by Startup).
Loading == {"StatCert", "StatKey", "ReadCert", "ReadKey", "Loaded"}
Stages == Loading \cup {"None", "Check", "Acquire", "Resolve", "Failed"}

\* A handshake reads the files exactly while it holds the write lock; there are
\* none before `new' has returned.
LockOK ==
  \A h \in Handshakes :
    /\ at[h] \in Loading <=> lock = h
    /\ at[Startup] # "Resolve" => at[h] = "None"

TypeOK ==
  /\ file \in [Files -> [content : Nat, mtime : Nat]]
  /\ issued \in Nat
  /\ due \in BOOLEAN
  /\ lock \in Loaders
  /\ at \in [Loaders -> Stages]
  /\ timed \in [Loaders -> [Files -> Nat]]
  /\ read \in [Loaders -> [Files -> Nat]]
  /\ pair \in Nat
  /\ seen \in [Files -> Nat]
  /\ LockOK

Init ==
  /\ file = [f \in Files |-> [content |-> 1, mtime |-> 1]]
  /\ issued = 1
  /\ due = FALSE
  /\ lock = Startup
  /\ at = [x \in Loaders |-> IF x = Startup THEN "StatCert" ELSE "None"]
  /\ timed = [x \in Loaders |-> Nothing]
  /\ read = [x \in Loaders |-> Nothing]
  /\ pair = Torn
  /\ seen = Nothing

-----------------------------------------------------------------------------
(***************************************************************************)
(* The files (external).                                                   *)
(***************************************************************************)
Issue ==
  /\ issued < MaxPairs
  /\ issued' = issued + 1
  /\ UNCHANGED <<file, due, lock, at, work, pair, seen>>

Put(f, content) ==
  file' = [file EXCEPT ![f] = [content |-> content, mtime |-> @.mtime + 1]]

Truncate(f) ==
  /\ file[f].content \notin {Torn, issued}
  /\ Put(f, Torn)
  /\ UNCHANGED <<issued, due, lock, at, work, pair, seen>>

Write(f) ==
  /\ file[f].content # issued
  /\ Put(f, issued)
  /\ UNCHANGED <<issued, due, lock, at, work, pair, seen>>

\* kubelet: both files are new at once.
Swap ==
  /\ \E f \in Files : file[f].content # issued
  /\ file' = [f \in Files |-> [content |-> issued, mtime |-> file[f].mtime + 1]]
  /\ UNCHANGED <<issued, due, lock, at, work, pair, seen>>

\* The interval is counted from `new', then from the last check.
IntervalElapses ==
  /\ at[Startup] = "Resolve" /\ ~due
  /\ due' = TRUE
  /\ UNCHANGED <<fs, lock, at, work, pair, seen>>

-----------------------------------------------------------------------------
Go(x, stage) == at' = [at EXCEPT ![x] = stage]

NotLocked == lock = Startup

\* A ClientHello arrives; resolve calls maybe_reload.
Hello(h) ==
  /\ at[Startup] = "Resolve" /\ at[h] = "None"
  /\ Go(h, "Check")
  /\ UNCHANGED <<fs, due, lock, work, pair, seen>>

\* Seeded faults stand before the definition they replace.
\* The comparison with the interval is the wrong way round.
CheckWrongWay(h) ==
  /\ at[h] = "Check" /\ NotLocked
  /\ Go(h, IF ~due THEN "Acquire" ELSE "Resolve")
  /\ UNCHANGED <<fs, due, lock, work, pair, seen>>

\* The check under the read lock.
Check(h) ==
  /\ at[h] = "Check" /\ NotLocked
  /\ Go(h, IF due THEN "Acquire" ELSE "Resolve")
  /\ UNCHANGED <<fs, due, lock, work, pair, seen>>

\* The load is done without the lock.
AcquireNothing(h) ==
  /\ at[h] = "Acquire"
  /\ due' = FALSE
  /\ Go(h, "StatCert")
  /\ UNCHANGED <<fs, lock, work, pair, seen>>

\* The check again under the write lock; `last_check' is set at once.
Acquire(h) ==
  /\ at[h] = "Acquire" /\ NotLocked
  /\ due' = FALSE
  /\ IF due THEN lock' = h /\ Go(h, "StatCert")
            ELSE UNCHANGED lock /\ Go(h, "Resolve")
  /\ UNCHANGED <<fs, work, pair, seen>>

\* The load is over and the lock is released.
Leave(x, stage) ==
  /\ Go(x, stage)
  /\ lock' = Startup
  /\ timed' = [timed EXCEPT ![x] = Nothing]
  /\ read' = [read EXCEPT ![x] = Nothing]

\* mtime(path)
Timed(x, f) == [timed[x] EXCEPT ![f] = file[f].mtime]

StatCert(x) ==
  /\ at[x] = "StatCert"
  /\ timed' = [timed EXCEPT ![x] = Timed(x, "cert")]
  /\ Go(x, "StatKey")
  /\ UNCHANGED <<fs, due, lock, read, pair, seen>>

\* Nothing is loaded unless a modification time has changed.
StatKey(x) ==
  /\ at[x] = "StatKey"
  /\ IF x # Startup /\ Timed(x, "key") = seen
     THEN Leave(x, "Resolve")
     ELSE /\ timed' = [timed EXCEPT ![x] = Timed(x, "key")]
          /\ Go(x, "ReadCert")
          /\ UNCHANGED <<lock, read>>
  /\ UNCHANGED <<fs, due, pair, seen>>

\* std::fs::read(path)
Read(x, f, stage) ==
  /\ read' = [read EXCEPT ![x] = [@ EXCEPT ![f] = file[f].content]]
  /\ Go(x, stage)
  /\ UNCHANGED <<fs, due, lock, timed, pair, seen>>

ReadCert(x) == at[x] = "ReadCert" /\ Read(x, "cert", "ReadKey")
ReadKey(x)  == at[x] = "ReadKey" /\ Read(x, "key", "Loaded")

\* certified_key_from_pem accepts them.
Fit(c) == c["cert"] = c["key"] /\ c["cert"] # Torn

\* The modification times are taken when the pair is stored.
InstallLateTimes(x) ==
  /\ at[x] = "Loaded" /\ Fit(read[x])
  /\ pair' = read[x]["cert"]
  /\ seen' = [f \in Files |-> file[f].mtime]
  /\ Leave(x, "Resolve")
  /\ UNCHANGED <<fs, due>>

\* The pair and the modification times read before it are stored.
Install(x) ==
  /\ at[x] = "Loaded" /\ Fit(read[x])
  /\ pair' = read[x]["cert"]
  /\ seen' = timed[x]
  /\ Leave(x, "Resolve")
  /\ UNCHANGED <<fs, due>>

\* The load fails: the previous pair stays; at start-up `new' fails.
Keep(x) ==
  /\ at[x] = "Loaded" /\ ~Fit(read[x])
  /\ Leave(x, IF x = Startup THEN "Failed" ELSE "Resolve")
  /\ UNCHANGED <<fs, due, pair, seen>>

\* The pod starts again.
Restart ==
  /\ at[Startup] = "Failed"
  /\ Go(Startup, "StatCert")
  /\ UNCHANGED <<fs, due, lock, work, pair, seen>>

\* current(): the handshake goes on with the pair that is stored now.
Resolve(h) ==
  /\ at[h] = "Resolve" /\ NotLocked
  /\ Go(h, "None")
  /\ UNCHANGED <<fs, due, lock, work, pair, seen>>

LoadStep(x) ==
  StatCert(x) \/ StatKey(x) \/ ReadCert(x) \/ ReadKey(x) \/ Install(x) \/ Keep(x)
HandshakeStep(h) == Check(h) \/ Acquire(h) \/ LoadStep(h) \/ Resolve(h)

Next ==
  \/ Issue \/ Swap \/ IntervalElapses \/ Restart \/ LoadStep(Startup)
  \/ \E f \in Files : Truncate(f) \/ Write(f)
  \/ \E h \in Handshakes : Hello(h) \/ HandshakeStep(h)

Spec == Init /\ [][Next]_vars

\* Time passes, the server is restarted, handshakes arrive and go on.  Nothing
\* says that whoever replaces the files finishes, nor that every slot is used.
Fairness ==
  /\ WF_vars(IntervalElapses) /\ WF_vars(Restart) /\ WF_vars(LoadStep(Startup))
  /\ WF_vars(\E h \in Handshakes : Hello(h))
  /\ \A h \in Handshakes : WF_vars(HandshakeStep(h))
FairSpec == Spec /\ Fairness

-----------------------------------------------------------------------------
(***************************************************************************)
(* Properties.                                                             *)
(***************************************************************************)

\* No rotation is overlooked: while a file is not what is being served, its
\* modification time is not the one remembered, so that the next check will
\* load again, whatever was replaced in the middle of earlier loads
\* (tls.rs:164-175).
RotationNoticed ==
  pair # Torn =>
    \A f \in Files : file[f].content # pair => file[f].mtime # seen[f]

\* Handshakes that load at the same time never bring back an older pair
\* (tls.rs:158-162, the second check under the write lock).
NeverOlder == [][pair' >= pair]_vars

\* `Certificates rotated by cert-manager are picked up without restarting'
\* (tls.rs:3-7): when the files rest at a pair that fits, it is served in the
\* end, however often a load met half-replaced files.
RotationServed ==
  <>[](Fit([f \in Files |-> file[f].content]) => pair = file["cert"].content)

-----------------------------------------------------------------------------
(***************************************************************************)
(* The inductive invariant.                                                *)
(***************************************************************************)

\* Loaders that have read the time, or the content, of a file.
HasTime(f) == IF f = "cert" THEN Loading \ {"StatCert"}
                          ELSE Loading \ {"StatCert", "StatKey"}
HasRead(f) == IF f = "cert" THEN {"ReadKey", "Loaded"} ELSE {"Loaded"}

\* A content that is not in the file any more was read under an older time.
TimesOK ==
  \A f \in Files :
    /\ seen[f] <= file[f].mtime
    /\ pair # Torn /\ file[f].content # pair => seen[f] < file[f].mtime
    /\ \A x \in Loaders :
         /\ at[x] \in HasTime(f) => timed[x][f] <= file[f].mtime
         /\ at[x] \in HasRead(f) /\ read[x][f] # file[f].content =>
              timed[x][f] < file[f].mtime

\* Nothing older than the pair is in the files, or was read by a loader.
OrderOK ==
  /\ pair <= issued
  /\ at[Startup] # "Resolve" => pair = Torn
  /\ \A f \in Files :
       /\ file[f].content \in {Torn} \cup pair .. issued
       /\ \A x \in Loaders : at[x] \in HasRead(f) =>
            /\ read[x][f] \in {Torn} \cup pair .. issued
            /\ file[f].content # Torn => read[x][f] <= file[f].content
=============================================================================
