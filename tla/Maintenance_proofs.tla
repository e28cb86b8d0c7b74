-------------------------- MODULE Maintenance_proofs --------------------------
(***************************************************************************)
(* Proofs about installers, manual upgrades and periodic workers, for any  *)
(* number of them, any versions, prefixes, intervals and crashes.          *)
(***************************************************************************)
EXTENDS MaintenanceInvariants, TLAPS

\* A step of p is nobody else's.
Others(p) ==
  \A q \in Procs \ {p} :
    pc'[q] = pc[q] /\ result'[q] = result[q] /\ mem'[q] = mem[q] /\ tx'[q] = tx[q]

\* p's command is over.
Gone(p) == pc'[p] \in {"done", "crashed"}

\* What p's step does to the lock.
LockMoves(p) ==
  \/ UNCHANGED lock
  \/ lock = NoOne /\ lock' = p
  \/ lock' = (IF lock = p THEN NoOne ELSE lock) /\ Gone(p)

\* A well-behaved step of p.
Behaves(p) ==
  /\ MaintenanceTypeOK' /\ Others(p) /\ UNCHANGED world
  /\ PointsOf(p)' /\ LockMoves(p) /\ (HoldsLock(p)' => lock' = p)

\* No two processes are past the lock.
LEMMA OnlyOneHolds ==
  ASSUME LockInv, NEW p \in Procs, HoldsLock(p), NEW q \in Procs \ {p}
  PROVE  ~HoldsLock(q)
  BY DEF LockInv, LockKept

\* The first and the last of some targets are among them.
LEMMA FirstAndLast ==
  ASSUME NEW S \in SUBSET Names, S # {}
  PROVE  First(S) \in S /\ Last(S) \in S /\ First(S) \in Names /\ Last(S) \in Names
  BY DEF First, Last, Names

\* A well-behaved step keeps the types, the points and the lock.
LEMMA LockStep ==
  ASSUME LockInv, NEW p \in Procs, Behaves(p)
  PROVE  LockInv'
  <1>1. NoOne \notin Procs
    BY StandaloneAssumption
  <1>2. ASSUME NEW q \in Procs, HoldsLock(q)'
        PROVE  lock' = q
    <2>1. CASE q = p
      BY <1>2, <2>1 DEF Behaves
    <2>2. CASE q # p
      <3>1. HoldsLock(q)
        BY <1>2, <2>2 DEF Behaves, Others, world, HoldsLock
      <3>2. lock = q
        BY <3>1 DEF LockInv, LockKept
      <3> QED BY <1>1, <2>2, <3>2 DEF Behaves, LockMoves
    <2> QED BY <2>1, <2>2
  <1>3. ASSUME NEW q \in Procs
        PROVE  PointsOf(q)'
    <2>1. CASE q = p
      BY <2>1 DEF Behaves
    <2>2. CASE q # p
      BY <2>2 DEF Behaves, Others, world, LockInv, PointsKept, PointsOf
    <2> QED BY <2>1, <2>2
  <1>4. command' \in Casts
    BY DEF Behaves, world, LockInv, PointsKept
  <1> QED BY <1>2, <1>3, <1>4 DEF LockInv, LockKept, PointsKept, Behaves
-----------------------------------------------------------------------------
(* Every step behaves: its types, its points and the lock *)

\* The empty memory and the empty transaction are of their types.
LEMMA NothingTyped == NoMemory \in Memory /\ NoTransaction \in Transaction
  <1>1. MaxTime \in Nat
    BY StandaloneAssumption
  <1> QED BY <1>1 DEF NoMemory, Memory, NoTransaction, Transaction, NoBackups

\* Leaving, whatever it does to the disk.
LEMMA LeaveBehaves ==
  ASSUME LockInv, NEW p \in Procs, UNCHANGED world,
         \/ \E r \in Results : Finish(p, r)
         \/ Leave(p, "crashed") /\ pc[p] # "done" /\ UNCHANGED result,
         bin' \in [Names -> File \cup {NoFile}], receipt' \in Receipt \cup {NoFile},
         state' \in UpdateState \cup {NoFile}
  PROVE  Behaves(p) /\ Gone(p)
  <1> USE DEF LockInv, MaintenanceTypeOK, DiskOK, ProcessesOK
  <1>1. PICK next \in {"done", "crashed"} :
          Leave(p, next) /\ (next = "done" \/ (pc[p] # "done" /\ UNCHANGED result))
    BY DEF Finish
  <1>2. result' \in [Procs -> Results] /\ \A q \in Procs \ {p} : result'[q] = result[q]
    BY DEF Finish
  <1>3. /\ pc' \in [Procs -> ControlPoints] /\ pc'[p] = next
        /\ mem' \in [Procs -> Memory] /\ tx' \in [Procs -> Transaction]
        /\ \A q \in Procs \ {p} : pc'[q] = pc[q] /\ mem'[q] = mem[q] /\ tx'[q] = tx[q]
    BY <1>1, NothingTyped DEF Leave, Goto, ControlPoints
  <1>4. lock' = (IF lock = p THEN NoOne ELSE lock)
    BY <1>1 DEF Leave
  <1>5. MaintenanceTypeOK'
    BY <1>2, <1>3, <1>4 DEF world
  <1>6. PointsOf(p)'
    BY <1>1, <1>3 DEF PointsOf, PointsKept
  <1> QED BY <1>2, <1>3, <1>4, <1>5, <1>6 DEF Behaves, Others, LockMoves, Gone, HoldsLock

\* A step of p that goes on to a point, with a memory and a transaction, whatever it does to
\* the disk.
GoesOn(p, next, m, t) ==
  /\ UNCHANGED <<world, result>>
  /\ pc' = [pc EXCEPT ![p] = next] /\ mem' = [mem EXCEPT ![p] = m] /\ tx' = [tx EXCEPT ![p] = t]
  /\ pc[p] # "done" /\ next \in ControlPoints \ {"done"} /\ m \in Memory /\ t \in Transaction
  /\ UNCHANGED lock \/ (lock = NoOne /\ lock' = p)
  /\ HoldsLock(p)' => HoldsLock(p) \/ lock' = p
  /\ next \in {"inspect", "commit", "rollback"} => command[p] = "install"
  /\ next \in {"check", "lock", "replace"} => command[p] \in {"upgrade", "worker"}
  /\ next = "recheck" => command[p] = "upgrade"
  /\ next \in {"reserve", "save"} => command[p] = "worker"
  /\ bin' \in [Names -> File \cup {NoFile}] /\ receipt' \in Receipt \cup {NoFile}
  /\ state' \in UpdateState \cup {NoFile}

\* A step that goes on is well-behaved, and does to its process what it says.
LEMMA GoingOnBehaves ==
  ASSUME LockInv, NEW p \in Procs, NEW next, NEW m, NEW t, GoesOn(p, next, m, t)
  PROVE  Behaves(p) /\ pc'[p] = next /\ mem'[p] = m /\ tx'[p] = t
  <1> USE DEF LockInv, MaintenanceTypeOK, DiskOK, ProcessesOK
  <1>1. /\ pc' \in [Procs -> ControlPoints] /\ pc'[p] = next
        /\ mem' \in [Procs -> Memory] /\ mem'[p] = m
        /\ tx' \in [Procs -> Transaction] /\ tx'[p] = t
        /\ \A q \in Procs \ {p} : pc'[q] = pc[q] /\ mem'[q] = mem[q] /\ tx'[q] = tx[q]
    BY DEF GoesOn
  <1>2. MaintenanceTypeOK'
    BY <1>1 DEF world, GoesOn
  <1>3. result'[p] = "none"
    BY DEF PointsKept, PointsOf, GoesOn
  <1>4. PointsOf(p)'
    BY <1>1, <1>3 DEF PointsOf, world, GoesOn
  <1>5. HoldsLock(p) => lock = p /\ lock # NoOne
    BY StandaloneAssumption DEF LockKept
  <1> QED BY <1>1, <1>2, <1>4, <1>5 DEF Behaves, Others, LockMoves, GoesOn

\* A function updated at a point by what it has there.
LEMMA SameAt ==
  ASSUME NEW S, NEW T, NEW f \in [S -> T], NEW x \in S
  PROVE  f = [f EXCEPT ![x] = f[x]]
  OBVIOUS

\* What a process leaves as it is has its type.
LEMMA Kept ==
  ASSUME LockInv, NEW p \in Procs
  PROVE  /\ pc = [pc EXCEPT ![p] = pc[p]] /\ pc[p] \in ControlPoints
         /\ mem = [mem EXCEPT ![p] = mem[p]] /\ mem[p] \in Memory
         /\ tx = [tx EXCEPT ![p] = tx[p]] /\ tx[p] \in Transaction
  BY SameAt DEF LockInv, MaintenanceTypeOK, ProcessesOK

\* What is on disk has its type, and an absent file is none of them.
LEMMA DiskTyped ==
  ASSUME LockInv
  PROVE  /\ bin \in [Names -> File \cup {NoFile}] /\ receipt \in Receipt \cup {NoFile}
         /\ state \in UpdateState \cup {NoFile}
         /\ NoFile \notin File /\ NoFile \notin Receipt /\ NoFile \notin UpdateState
  BY NoFileAssumption DEF LockInv, MaintenanceTypeOK, DiskOK

\* A step that ends p's command and leaves the disk alone.
Quits(p) ==
  /\ UNCHANGED <<disk, world>>
  /\ \/ \E r \in Results : Finish(p, r)
     \/ Leave(p, "crashed") /\ pc[p] # "done" /\ UNCHANGED result

\* A step that quits is well-behaved.
LEMMA QuitBehaves ==
  ASSUME LockInv, NEW p \in Procs, Quits(p)
  PROVE  Behaves(p) /\ Gone(p)
  <1>1. UNCHANGED <<bin, receipt, state>>
    BY DEF Quits, disk
  <1> QED BY <1>1, LeaveBehaves, DiskTyped DEF Quits

\* The steps that end a command and change nothing.
Quitting(p) ==
  \/ BundleRejected(p) \/ InstallRefused(p) \/ InstallBusy(p) \/ InspectFails(p)
  \/ UpgradeStops(p) \/ UpgradeBusy(p) \/ ReplaceFails(p) \/ WorkerBusy(p) \/ ReserveStops(p)
  \/ WorkerSaveFails(p) \/ Crash(p)

\* Each of the steps that end a command and change nothing quits.
LEMMA QuittingQuits ==
  ASSUME LockInv, NEW p \in Procs, Quitting(p)
  PROVE  Quits(p) /\ UNCHANGED contact
  <1> USE DEF Quits, disk, Results
  <1>1. CASE BundleRejected(p) \/ InstallRefused(p) \/ InstallBusy(p) \/ InspectFails(p)
    BY <1>1 DEF BundleRejected, InstallRefused, InstallBusy, InspectFails, Alone
  <1>2. CASE UpgradeStops(p) \/ UpgradeBusy(p) \/ ReplaceFails(p)
    BY <1>2 DEF UpgradeStops, UpgradeBusy, ReplaceFails, Updates
  <1>3. CASE WorkerBusy(p) \/ ReserveStops(p) \/ WorkerSaveFails(p)
    BY <1>3 DEF WorkerBusy, ReserveStops, WorkerSaveFails, Updates
  <1>4. CASE Crash(p)
    BY <1>4 DEF Crash
  <1> QED BY <1>1, <1>2, <1>3, <1>4 DEF Quitting

\* The steps to the lock, and under it, that leave everything on disk as it is.
Approaching(p) ==
  \/ InstallLocks(p) \/ UpgradeStarts(p) \/ UpgradeCandidate(p) \/ UpgradeLocks(p)
  \/ UpgradeRechecks(p) \/ WorkerStarts(p) \/ WorkerLocks(p)

\* What an approach brings p to.
Approached(p) ==
  \/ /\ pc'[p] = "inspect" /\ UNCHANGED mem
  \/ /\ pc'[p] = "check" /\ command[p] = "upgrade" /\ mem'[p].exe \in File
  \/ /\ pc[p] = "check" /\ pc'[p] = "lock" /\ command[p] = "upgrade"
     /\ mem'[p].exe = mem[p].exe /\ mem'[p].owner = mem[p].owner /\ mem[p].owner # NoOne
     /\ mem'[p].candidate = release /\ validate_candidate_version(mem[p].exe.version, release)
  \/ pc'[p] = "lock" /\ command[p] = "worker" /\ mem'[p].exe \in File
  \/ pc[p] = "lock" /\ pc'[p] = "recheck" /\ command[p] = "upgrade" /\ UNCHANGED mem
  \/ pc[p] = "lock" /\ pc'[p] = "reserve" /\ UNCHANGED mem
  \/ pc[p] = "recheck" /\ pc'[p] = "replace" /\ StillOwned(p) /\ UNCHANGED mem
  \/ Gone(p)

\* Each step to the lock and under it is well-behaved and leaves the disk alone.
LEMMA ApproachBehaves ==
  ASSUME LockInv, NEW p \in Procs, Approaching(p)
  PROVE  Behaves(p) /\ Approached(p) /\ UNCHANGED <<disk, contact>>
  <1> USE DiskTyped, Kept DEF disk, ControlPoints, HoldsLock
  <1>m. /\ MaxTime \in Nat /\ NoMemory \in Memory
        /\ bin["crawlson"] \in File \cup {NoFile} /\ now \in 0 .. MaxTime
        /\ release \in Versions \cup {0}
    BY NothingTyped, StandaloneAssumption DEF Names, LockInv, MaintenanceTypeOK, DiskOK
  <1>p. pc \in [Procs -> ControlPoints]
    BY DEF LockInv, MaintenanceTypeOK, ProcessesOK
  <1>1. CASE InstallLocks(p)
    <2>1. GoesOn(p, "inspect", mem[p], tx[p])
      BY <1>1 DEF InstallLocks, TakesLock, Continue, Goto, Alone, GoesOn
    <2> QED BY <1>1, <2>1, GoingOnBehaves DEF InstallLocks, Alone, Approached
  <1>2. CASE UpgradeStarts(p)
    <2> DEFINE m == [NoMemory EXCEPT !.exe = bin["crawlson"],
                       !.owner = IF receipt_manages_binary THEN receipt.id ELSE NoOne]
    <2>1. m \in Memory /\ m.exe \in File
      BY <1>m, <1>2 DEF Runs, UpgradeStarts, Memory, NoMemory, receipt_manages_binary, Receipt
    <2>2. mem' = [mem EXCEPT ![p] = m] /\ pc' = [pc EXCEPT ![p] = "check"] /\ UNCHANGED result
      BY <1>2 DEF UpgradeStarts, Remembers, Continue, Goto
    <2> HIDE DEF m
    <2>3. GoesOn(p, "check", m, tx[p])
      BY <1>2, <2>1, <2>2, <1>p DEF UpgradeStarts, Runs, Updates, GoesOn, world
    <2> QED BY <1>2, <2>1, <2>3, GoingOnBehaves DEF UpgradeStarts, Updates, Approached
  <1>3. CASE UpgradeCandidate(p)
    <2> DEFINE m == [mem[p] EXCEPT !.candidate = release]
    <2>1. m \in Memory /\ m.exe = mem[p].exe /\ m.owner = mem[p].owner /\ m.candidate = release
      BY <1>m DEF Memory
    <2>2. mem' = [mem EXCEPT ![p] = m] /\ pc' = [pc EXCEPT ![p] = "lock"] /\ UNCHANGED result
      BY <1>3 DEF UpgradeCandidate, Remembers, Continue, Goto
    <2> HIDE DEF m
    <2>3. GoesOn(p, "lock", m, tx[p])
      BY <1>3, <2>1, <2>2, <1>p DEF UpgradeCandidate, Updates, GoesOn, world
    <2> QED BY <1>3, <2>1, <2>3, GoingOnBehaves DEF UpgradeCandidate, Updates, Approached
  <1>4. CASE UpgradeLocks(p)
    <2>1. GoesOn(p, "recheck", mem[p], tx[p])
      BY <1>4 DEF UpgradeLocks, TakesLock, Continue, Goto, Updates, GoesOn
    <2> QED BY <1>4, <2>1, GoingOnBehaves DEF UpgradeLocks, Updates, Approached
  <1>5. CASE UpgradeRechecks(p)
    <2>1. CASE StillOwned(p) /\ Continue(p, "replace") /\ UNCHANGED <<lock, mem, tx>>
      <3>1. GoesOn(p, "replace", mem[p], tx[p])
        BY <1>5, <2>1 DEF UpgradeRechecks, Continue, Goto, Updates, GoesOn
      <3> QED BY <1>5, <2>1, <3>1, GoingOnBehaves DEF UpgradeRechecks, Updates, Approached
    <2>2. CASE Finish(p, "blocked")
      <3>1. Quits(p)
        BY <1>5, <2>2 DEF UpgradeRechecks, Quits, Updates, Results
      <3> QED BY <1>5, <3>1, QuitBehaves DEF UpgradeRechecks, Approached
    <2> QED BY <1>5, <2>1, <2>2 DEF UpgradeRechecks
  <1>6. CASE WorkerStarts(p)
    <2> DEFINE m == [NoMemory EXCEPT !.exe = bin["crawlson"], !.started = now]
    <2>1. m \in Memory /\ m.exe \in File
      BY <1>m, <1>6 DEF Runs, WorkerStarts, Memory, NoMemory
    <2>2. mem' = [mem EXCEPT ![p] = m] /\ pc' = [pc EXCEPT ![p] = "lock"] /\ UNCHANGED result
      BY <1>6 DEF WorkerStarts, Remembers, Continue, Goto
    <2> HIDE DEF m
    <2>3. GoesOn(p, "lock", m, tx[p])
      BY <1>6, <2>1, <2>2 DEF WorkerStarts, Runs, Updates, GoesOn
    <2> QED BY <1>6, <2>1, <2>3, GoingOnBehaves DEF WorkerStarts, Updates, Approached
  <1>7. CASE WorkerLocks(p)
    <2>1. GoesOn(p, "reserve", mem[p], tx[p])
      BY <1>7 DEF WorkerLocks, TakesLock, Continue, Goto, Updates, GoesOn
    <2> QED BY <1>7, <2>1, GoingOnBehaves DEF WorkerLocks, Updates, Approached
  <1> QED BY <1>1, <1>2, <1>3, <1>4, <1>5, <1>6, <1>7 DEF Approaching
-----------------------------------------------------------------------------
(* The steps of a transaction *)

\* What p's transaction is after its step, when it is the same installation's.
SameOpening(p) ==
  tx'[p].prior = tx[p].prior /\ tx'[p].id = tx[p].id /\ tx'[p].found = tx[p].found

\* What a transaction remembers has its type.
LEMMA TransactionTyped ==
  ASSUME LockInv, NEW p \in Procs
  PROVE  /\ tx \in [Procs -> Transaction] /\ tx[p] \in Transaction
         /\ tx[p].prior \in Receipt \cup {NoFile} /\ tx[p].id \in Procs \cup {Shipped, NoOne}
         /\ tx[p].found \in [Names -> File \cup {NoFile}]
         /\ tx[p].backup \in [Names -> File \cup {NoFile}]
         /\ tx[p].placed \in SUBSET Names /\ tx[p].left \in SUBSET Names
         /\ tx[p].errors \in BOOLEAN
         /\ bundle[p] \in Versions /\ pc \in [Procs -> ControlPoints]
         /\ [version |-> bundle[p], by |-> p] \in File
  BY DEF LockInv, MaintenanceTypeOK, ProcessesOK, Transaction, File

\* A transaction begins with what is on disk.
LEMMA InspectOpens ==
  ASSUME LockInv, NEW p \in Procs, Inspect(p)
  PROVE  /\ Behaves(p) /\ pc'[p] = "commit" /\ UNCHANGED <<disk, contact>>
         /\ tx'[p].prior = receipt /\ tx'[p].found = bin
         /\ tx'[p].id = (IF receipt = NoFile THEN p ELSE receipt.id)
         /\ tx'[p].backup = NoBackups /\ tx'[p].placed = {} /\ tx'[p].left = {}
         /\ tx'[p].errors = FALSE
  <1> DEFINE t == [NoTransaction EXCEPT !.prior = receipt,
                                        !.id = IF receipt = NoFile THEN p ELSE receipt.id,
                                        !.found = bin]
  <1>1. /\ t \in Transaction
        /\ t.prior = receipt /\ t.found = bin /\ t.id = (IF receipt = NoFile THEN p ELSE receipt.id)
        /\ t.backup = NoBackups /\ t.placed = {} /\ t.left = {} /\ t.errors = FALSE
    BY DiskTyped DEF NoTransaction, Transaction, NoBackups, Receipt
  <1>2. tx' = [tx EXCEPT ![p] = t]
    BY DEF Inspect
  <1> HIDE DEF t
  <1>3. GoesOn(p, "commit", mem[p], t)
    <2>1. command[p] = "install"
      BY DEF Inspect, LockInv, PointsKept, PointsOf
    <2> QED BY <1>1, <1>2, <2>1, DiskTyped, Kept
            DEF Inspect, Continue, Goto, Alone, GoesOn, HoldsLock, ControlPoints
  <1>4. Behaves(p) /\ pc'[p] = "commit" /\ tx'[p] = t
    BY <1>3, GoingOnBehaves
  <1> QED BY <1>1, <1>4 DEF Inspect, Alone, disk

\* A step within a transaction is well-behaved.
LEMMA TransactionGoesOn ==
  ASSUME LockInv, NEW p \in Procs, InTransaction(p), UNCHANGED <<world, state, lock, mem, result>>,
         NEW next \in {"commit", "rollback"}, pc' = [pc EXCEPT ![p] = next],
         NEW t \in Transaction, tx' = [tx EXCEPT ![p] = t],
         bin' \in [Names -> File \cup {NoFile}], receipt' \in Receipt \cup {NoFile}
  PROVE  Behaves(p) /\ pc'[p] = next /\ tx'[p] = t
  <1>1. command[p] = "install" /\ pc[p] \in {"commit", "rollback"}
    BY DEF LockInv, PointsKept, PointsOf, InTransaction
  <1>2. GoesOn(p, next, mem[p], t)
    BY <1>1, DiskTyped, Kept DEF GoesOn, HoldsLock, ControlPoints
  <1> QED BY <1>2, GoingOnBehaves

\* A backup takes the first target not yet backed up out of the prefix.
LEMMA BackUpMoves ==
  ASSUME LockInv, NEW p \in Procs, BackUp(p)
  PROVE  LET n == First(ToBackUp(p)) IN
         /\ Behaves(p) /\ pc'[p] = "commit" /\ SameOpening(p)
         /\ UNCHANGED <<receipt, state, contact>>
         /\ n \in ToBackUp(p) /\ bin' = [bin EXCEPT ![n] = NoFile]
         /\ tx'[p].backup = [tx[p].backup EXCEPT ![n] = bin[n]]
         /\ tx'[p].placed = tx[p].placed /\ tx'[p].left = tx[p].left
         /\ tx'[p].errors = tx[p].errors
  <1> DEFINE n == First(ToBackUp(p))
             t == [tx[p] EXCEPT !.backup = [tx[p].backup EXCEPT ![n] = bin[n]]]
  <1>1. n \in ToBackUp(p) /\ n \in Names
    BY FirstAndLast DEF BackUp, ToBackUp
  <1>2. tx' = [tx EXCEPT ![p] = t] /\ bin' = [bin EXCEPT ![n] = NoFile]
    BY DEF BackUp
  <1> HIDE DEF n
  <1>3. /\ t \in Transaction
        /\ t.prior = tx[p].prior /\ t.id = tx[p].id /\ t.found = tx[p].found
        /\ t.backup = [tx[p].backup EXCEPT ![n] = bin[n]] /\ t.placed = tx[p].placed
        /\ t.left = tx[p].left /\ t.errors = tx[p].errors
    BY <1>1, TransactionTyped, DiskTyped DEF Transaction
  <1>4. bin' \in [Names -> File \cup {NoFile}]
    BY <1>1, <1>2, DiskTyped
  <1>5. pc' = [pc EXCEPT ![p] = "commit"] /\ InTransaction(p)
    BY Kept DEF BackUp, Commits, InTransaction
  <1> HIDE DEF t
  <1>6. Behaves(p) /\ pc'[p] = "commit" /\ tx'[p] = t
    BY <1>2, <1>3, <1>4, <1>5, TransactionGoesOn, DiskTyped DEF BackUp, Commits, Alone
  <1> QED BY <1>1, <1>2, <1>3, <1>6 DEF SameOpening, BackUp, Commits, Alone, n

\* A placement puts the new binary where its target is free.
LEMMA PlaceMoves ==
  ASSUME LockInv, NEW p \in Procs, Place(p)
  PROVE  LET n == First(ToPlace(p)) IN
         /\ Behaves(p) /\ pc'[p] = "commit" /\ SameOpening(p)
         /\ UNCHANGED <<receipt, state, contact>>
         /\ n \in ToPlace(p) /\ n \in Names
         /\ bin' = [bin EXCEPT ![n] = [version |-> bundle[p], by |-> p]]
         /\ tx'[p].placed = tx[p].placed \cup {n}
         /\ tx'[p].backup = tx[p].backup /\ tx'[p].left = tx[p].left
         /\ tx'[p].errors = tx[p].errors
  <1> DEFINE n == First(ToPlace(p))
             t == [tx[p] EXCEPT !.placed = tx[p].placed \cup {n}]
  <1>1. n \in ToPlace(p) /\ n \in Names
    BY FirstAndLast DEF Place, ToPlace
  <1>2. /\ tx' = [tx EXCEPT ![p] = t]
        /\ bin' = [bin EXCEPT ![n] = [version |-> bundle[p], by |-> p]]
    BY DEF Place
  <1> HIDE DEF n
  <1>3. /\ t \in Transaction
        /\ t.prior = tx[p].prior /\ t.id = tx[p].id /\ t.found = tx[p].found
        /\ t.placed = tx[p].placed \cup {n} /\ t.backup = tx[p].backup
        /\ t.left = tx[p].left /\ t.errors = tx[p].errors
    BY <1>1, TransactionTyped, DiskTyped DEF Transaction
  <1>4. bin' \in [Names -> File \cup {NoFile}]
    BY <1>1, <1>2, DiskTyped, TransactionTyped
  <1>5. pc' = [pc EXCEPT ![p] = "commit"] /\ InTransaction(p)
    BY Kept DEF Place, Commits, InTransaction
  <1> HIDE DEF t
  <1>6. Behaves(p) /\ pc'[p] = "commit" /\ tx'[p] = t
    BY <1>2, <1>3, <1>4, <1>5, TransactionGoesOn, DiskTyped DEF Place, Commits, Alone
  <1> QED BY <1>1, <1>2, <1>3, <1>6 DEF SameOpening, Place, Commits, Alone, n

\* The receipt of a transaction is a receipt.
LEMMA CommittedTyped ==
  ASSUME LockInv, NEW p \in Procs, Opened(p)
  PROVE  Committed(p) \in Receipt
  <1>1. tx[p].id \in Procs \cup {Shipped}
    BY TransactionTyped, NoFileAssumption DEF Opened, Receipt
  <1> QED BY <1>1 DEF Committed, Receipt

\* What there is to roll back.
Undone(p) == tx[p].placed \cup {n \in Names : tx[p].backup[n] # NoFile}

\* A failed commit has everything it did to roll back.
LEMMA CommitFailsMoves ==
  ASSUME LockInv, NEW p \in Procs, Opened(p), CommitFails(p)
  PROVE  /\ Behaves(p) /\ pc'[p] = "rollback" /\ SameOpening(p)
         /\ UNCHANGED <<bin, state, contact>>
         /\ receipt' \in {receipt, Committed(p)}
         /\ tx'[p].backup = tx[p].backup /\ tx'[p].placed = tx[p].placed
         /\ tx'[p].left = Undone(p) /\ tx'[p].errors = tx[p].errors
  <1> DEFINE t == [tx[p] EXCEPT !.left = Undone(p)]
  <1>1. tx' = [tx EXCEPT ![p] = t]
    BY DEF CommitFails, StartsRollback, Undone
  <1>2. /\ t \in Transaction
        /\ t.prior = tx[p].prior /\ t.id = tx[p].id /\ t.found = tx[p].found
        /\ t.backup = tx[p].backup /\ t.placed = tx[p].placed
        /\ t.left = Undone(p) /\ t.errors = tx[p].errors
    <2>1. Undone(p) \in SUBSET Names
      BY TransactionTyped DEF Undone
    <2> QED BY <2>1, TransactionTyped DEF Transaction
  <1>3. receipt' \in {receipt, Committed(p)}
    BY DEF CommitFails
  <1> HIDE DEF t
  <1>4. pc' = [pc EXCEPT ![p] = "rollback"] /\ InTransaction(p)
    BY DEF CommitFails, StartsRollback, Continue, Goto, Commits, InTransaction
  <1>5. UNCHANGED <<world, state, lock, mem, result, contact, bin>>
    BY DEF CommitFails, StartsRollback, Continue, Commits, Alone
  <1>6. receipt' \in Receipt \cup {NoFile} /\ bin' \in [Names -> File \cup {NoFile}]
    BY <1>3, <1>5, CommittedTyped, DiskTyped
  <1>7. Behaves(p) /\ pc'[p] = "rollback" /\ tx'[p] = t
    BY <1>1, <1>2, <1>4, <1>5, <1>6, TransactionGoesOn
  <1> QED BY <1>2, <1>3, <1>5, <1>7 DEF SameOpening

\* A rollback removes the new binary of the last target, or fails to.
LEMMA RemoveNewMoves ==
  ASSUME LockInv, NEW p \in Procs, RemoveNew(p)
  PROVE  \E removed \in BOOLEAN :
         LET n == Last(tx[p].left) IN
         /\ Behaves(p) /\ pc'[p] = "rollback" /\ SameOpening(p)
         /\ UNCHANGED <<receipt, state, contact>>
         /\ n \in tx[p].left /\ n \in tx[p].placed /\ n \in Names
         /\ bin' = IF removed THEN [bin EXCEPT ![n] = NoFile] ELSE bin
         /\ tx'[p].backup = tx[p].backup /\ tx'[p].placed = tx[p].placed \ {n}
         /\ tx'[p].left = (IF tx[p].backup[n] = NoFile THEN tx[p].left \ {n} ELSE tx[p].left)
         /\ tx'[p].errors = (tx[p].errors \/ ~removed)
  <1> DEFINE n == Last(tx[p].left)
  <1>0. PICK removed \in BOOLEAN :
          /\ bin' = IF removed THEN [bin EXCEPT ![n] = NoFile] ELSE bin
          /\ tx' = [tx EXCEPT ![p].placed = @ \ {n},
                              ![p].left = IF tx[p].backup[n] = NoFile THEN @ \ {n} ELSE @,
                              ![p].errors = @ \/ ~removed]
    BY DEF RemoveNew
  <1>1. n \in tx[p].left /\ n \in tx[p].placed /\ n \in Names
    BY FirstAndLast, TransactionTyped DEF RemoveNew
  <1> HIDE DEF n
  <1> DEFINE left == IF tx[p].backup[n] = NoFile THEN tx[p].left \ {n} ELSE tx[p].left
             errors == tx[p].errors \/ ~removed
             t == [tx[p] EXCEPT !.placed = tx[p].placed \ {n}, !.left = left, !.errors = errors]
  <1>2. tx' = [tx EXCEPT ![p] = t]
    <2>1. tx' = [tx EXCEPT ![p].placed = tx[p].placed \ {n}, ![p].left = left,
                           ![p].errors = errors]
      BY <1>0
    <2> HIDE DEF left, errors
    <2> QED BY <2>1, TransactionTyped
  <1>a. left \in SUBSET Names /\ errors \in BOOLEAN
    BY TransactionTyped
  <1> HIDE DEF left, errors
  <1>3. t \in Transaction
    BY <1>a, TransactionTyped DEF Transaction
  <1>4. /\ t.prior = tx[p].prior /\ t.id = tx[p].id /\ t.found = tx[p].found
        /\ t.backup = tx[p].backup /\ t.placed = tx[p].placed \ {n} /\ t.left = left
        /\ t.errors = errors
    BY TransactionTyped DEF Transaction
  <1>5. bin' \in [Names -> File \cup {NoFile}]
    BY <1>0, <1>1, DiskTyped
  <1>6. pc' = [pc EXCEPT ![p] = "rollback"] /\ InTransaction(p)
    BY Kept DEF RemoveNew, RollsBack, InTransaction
  <1> HIDE DEF t
  <1>7. Behaves(p) /\ pc'[p] = "rollback" /\ tx'[p] = t
    BY <1>2, <1>3, <1>5, <1>6, TransactionGoesOn, DiskTyped DEF RemoveNew, RollsBack, Alone
  <1> QED BY <1>0, <1>1, <1>4, <1>7 DEF SameOpening, RemoveNew, RollsBack, Alone, n, left, errors

\* A rollback puts back the backup of the last target, or fails to.
LEMMA RestoreOldMoves ==
  ASSUME LockInv, NEW p \in Procs, RestoreOld(p)
  PROVE  \E restored \in BOOLEAN :
         LET n == Last(tx[p].left) IN
         /\ Behaves(p) /\ pc'[p] = "rollback" /\ SameOpening(p)
         /\ UNCHANGED <<receipt, state, contact>>
         /\ n \in tx[p].left /\ n \notin tx[p].placed /\ n \in Names
         /\ bin' = IF restored THEN [bin EXCEPT ![n] = tx[p].backup[n]] ELSE bin
         /\ tx'[p].backup = (IF restored THEN [tx[p].backup EXCEPT ![n] = NoFile]
                                         ELSE tx[p].backup)
         /\ tx'[p].placed = tx[p].placed /\ tx'[p].left = tx[p].left \ {n}
         /\ tx'[p].errors = (tx[p].errors \/ ~restored)
  <1> DEFINE n == Last(tx[p].left)
  <1>0. PICK restored \in BOOLEAN :
          /\ bin' = IF restored THEN [bin EXCEPT ![n] = tx[p].backup[n]] ELSE bin
          /\ \/ restored /\ tx' = [tx EXCEPT ![p].backup[n] = NoFile, ![p].left = @ \ {n}]
             \/ ~restored /\ tx' = [tx EXCEPT ![p].left = @ \ {n}, ![p].errors = TRUE]
    BY DEF RestoreOld
  <1>1. n \in tx[p].left /\ n \notin tx[p].placed /\ n \in Names
    BY FirstAndLast, TransactionTyped DEF RestoreOld
  <1> HIDE DEF n
  <1> DEFINE backup == IF restored THEN [tx[p].backup EXCEPT ![n] = NoFile] ELSE tx[p].backup
             t == [prior |-> tx[p].prior, id |-> tx[p].id, found |-> tx[p].found,
                   backup |-> backup, placed |-> tx[p].placed, left |-> tx[p].left \ {n},
                   errors |-> (tx[p].errors \/ ~restored)]
  <1>2. tx' = [tx EXCEPT ![p] = t]
    <2>1. CASE restored
      BY <1>0, <2>1, TransactionTyped DEF Transaction
    <2>2. CASE ~restored
      BY <1>0, <2>2, TransactionTyped DEF Transaction
    <2> QED BY <2>1, <2>2
  <1>3. t \in Transaction
    <2>1. backup \in [Names -> File \cup {NoFile}]
      BY <1>1, TransactionTyped
    <2> QED BY <2>1, TransactionTyped DEF Transaction
  <1>4. /\ t.prior = tx[p].prior /\ t.id = tx[p].id /\ t.found = tx[p].found
        /\ t.backup = backup /\ t.placed = tx[p].placed /\ t.left = tx[p].left \ {n}
        /\ t.errors = (tx[p].errors \/ ~restored)
    OBVIOUS
  <1>5. bin' \in [Names -> File \cup {NoFile}]
    <2>1. tx[p].backup[n] \in File \cup {NoFile}
      BY <1>1, TransactionTyped
    <2>2. bin' = IF restored THEN [bin EXCEPT ![n] = tx[p].backup[n]] ELSE bin
      BY <1>0
    <2> QED BY <1>1, <2>1, <2>2, DiskTyped
  <1>6. pc' = [pc EXCEPT ![p] = "rollback"] /\ InTransaction(p)
    BY Kept DEF RestoreOld, RollsBack, InTransaction
  <1> HIDE DEF t, backup
  <1>7. Behaves(p) /\ pc'[p] = "rollback" /\ tx'[p] = t
    BY <1>2, <1>3, <1>5, <1>6, TransactionGoesOn, DiskTyped DEF RestoreOld, RollsBack, Alone
  <1> QED BY <1>0, <1>1, <1>4, <1>7 DEF SameOpening, RestoreOld, RollsBack, Alone, n, backup

\* The end of a transaction.
Ending(p) == write_install_receipt(p) \/ restore_receipt(p)

\* The end of a transaction changes the receipt at most.
LEMMA EndingMoves ==
  ASSUME LockInv, NEW p \in Procs, Opened(p), Ending(p)
  PROVE  /\ Behaves(p) /\ Gone(p) /\ InTransaction(p)
         /\ UNCHANGED <<bin, state, contact>>
         /\ receipt' \in {receipt, Committed(p), tx[p].prior}
         /\ result' = [result EXCEPT ![p] = result'[p]]
  <1> USE DEF Results
  <1>1. /\ InTransaction(p) /\ UNCHANGED <<world, bin, state, contact>>
        /\ receipt' \in {receipt, Committed(p), tx[p].prior}
    BY DEF Ending, write_install_receipt, restore_receipt, Commits, RollsBack, Alone, InTransaction
  <1>2. \E r \in Results : Finish(p, r)
    BY DEF Ending, write_install_receipt, restore_receipt
  <1>3. receipt' \in Receipt \cup {NoFile}
    BY <1>1, DiskTyped, CommittedTyped, TransactionTyped
  <1>4. result' = [result EXCEPT ![p] = result'[p]]
    BY <1>2 DEF Finish, LockInv, MaintenanceTypeOK, ProcessesOK
  <1> QED BY <1>1, <1>2, <1>3, <1>4, DiskTyped, LeaveBehaves
-----------------------------------------------------------------------------
(* The steps of an update *)

\* What an updater remembers has its type.
LEMMA MemoryTyped ==
  ASSUME LockInv, NEW p \in Procs
  PROVE  /\ mem \in [Procs -> Memory] /\ mem[p] \in Memory
         /\ mem[p].exe \in File \cup {NoFile} /\ mem[p].owner \in Procs \cup {Shipped, NoOne}
         /\ mem[p].candidate \in Versions \cup {0}
         /\ mem[p].started \in 0 .. MaxTime /\ mem[p].started \in Nat /\ MaxTime \in Nat
         /\ mem[p].state \in UpdateState \cup {NoFile}
         /\ pc \in [Procs -> ControlPoints]
         /\ release \in Versions \cup {0} /\ now \in 0 .. MaxTime
  BY StandaloneAssumption DEF LockInv, MaintenanceTypeOK, DiskOK, ProcessesOK, Memory

\* The step that replaces the installed binary.
Replacing(p) == UpgradeReplaces(p) \/ WorkerReplaces(p)

\* A replacement puts the release it verified in the place of crawlson.
LEMMA ReplacingMoves ==
  ASSUME LockInv, NEW p \in Procs, Replacing(p), mem[p].candidate \in Versions,
         WorkerReplaces(p) => mem[p].state # NoFile
  PROVE  /\ Behaves(p) /\ pc[p] = "replace" /\ ExeAtPrefix(p)
         /\ UNCHANGED <<receipt, state, contact>>
         /\ bin' = [bin EXCEPT !["crawlson"] = [version |-> mem[p].candidate, by |-> p]]
         /\ \/ Gone(p)
            \/ /\ pc'[p] = "save" /\ command[p] = "worker"
               /\ mem[p].state # NoFile /\ mem'[p].state # NoFile
               /\ mem'[p].exe = mem[p].exe /\ mem'[p].started = mem[p].started
               /\ mem'[p].state.id = mem[p].state.id /\ mem'[p].state.next = mem[p].state.next
  <1>1. /\ pc[p] = "replace" /\ ExeAtPrefix(p) /\ UNCHANGED <<world, receipt, state, contact>>
        /\ bin' = [bin EXCEPT !["crawlson"] = [version |-> mem[p].candidate, by |-> p]]
    BY DEF Replacing, UpgradeReplaces, WorkerReplaces, Replaces, Updates
  <1>2. bin' \in [Names -> File \cup {NoFile}]
    BY <1>1, DiskTyped DEF File
  <1>3. CASE UpgradeReplaces(p)
    <2>1. \E r \in Results : Finish(p, r)
      BY <1>3 DEF UpgradeReplaces, Results
    <2> QED BY <1>1, <1>2, <2>1, DiskTyped, LeaveBehaves
  <1>4. CASE WorkerReplaces(p)
    <2> DEFINE s == [mem[p].state EXCEPT !.installed = mem[p].started]
               m == [mem[p] EXCEPT !.state = s]
    <2>1. s \in UpdateState /\ s.id = mem[p].state.id /\ s.next = mem[p].state.next
      BY <1>4, MemoryTyped DEF UpdateState
    <2> HIDE DEF s
    <2>2. /\ m \in Memory /\ m.state = s /\ m.exe = mem[p].exe /\ m.started = mem[p].started
      BY <2>1, MemoryTyped DEF Memory
    <2>3. mem' = [mem EXCEPT ![p] = m]
      BY <1>4 DEF WorkerReplaces, Remembers, s
    <2> HIDE DEF m
    <2>4. GoesOn(p, "save", m, tx[p]) /\ command[p] = "worker"
      BY <1>1, <1>2, <1>4, <2>2, <2>3, DiskTyped, Kept
         DEF WorkerReplaces, Continue, Goto, GoesOn, HoldsLock, ControlPoints
    <2>5. Behaves(p) /\ pc'[p] = "save" /\ mem'[p] = m
      BY <2>4, GoingOnBehaves
    <2> QED BY <1>1, <1>4, <2>1, <2>2, <2>4, <2>5, DiskTyped
  <1> QED BY <1>3, <1>4 DEF Replacing

\* The state a worker starts from is the one on disk, if that is its own, or a new one.
LEMMA OwnStateTyped ==
  ASSUME LockInv, NEW p \in Procs
  PROVE  LET id == installation_ownership(p)
             s == OwnState(p, id)
         IN /\ id \in Procs \cup {Shipped, NoOne} /\ s \in UpdateState
            /\ \/ s = state /\ state # NoFile /\ id \in {NoOne, state.id}
               \/ /\ s = FreshState(IF id = NoOne THEN p ELSE id)
                  /\ state = NoFile \/ id \notin {NoOne, state.id}
  <1>1. installation_ownership(p) \in Procs \cup {Shipped, NoOne}
    BY DiskTyped DEF installation_ownership, receipt_manages_binary, Receipt
  <1>2. FreshState(IF installation_ownership(p) = NoOne THEN p ELSE installation_ownership(p))
          \in UpdateState
    BY <1>1 DEF FreshState, UpdateState
  <1> QED BY <1>1, <1>2, DiskTyped DEF OwnState

\* A worker puts off the next attempt before it makes this one.
LEMMA ReserveMoves ==
  ASSUME LockInv, NEW p \in Procs, Reserve(p)
  PROVE  LET id == installation_ownership(p)
             s == OwnState(p, id)
         IN /\ Behaves(p) /\ pc[p] = "reserve" /\ pc'[p] = "check" /\ command[p] = "worker"
            /\ UNCHANGED <<bin, receipt, tx, contact>>
            /\ Due(s, mem[p].started)
            /\ state' \in UpdateState /\ state'.id = s.id
            /\ state'.next \in Int /\ state'.next >= mem[p].started + Day
            /\ mem'[p].exe = mem[p].exe /\ mem'[p].owner = id
            /\ mem'[p].started = mem[p].started /\ mem'[p].state = state'
  <1> DEFINE id == installation_ownership(p)
             s == OwnState(p, id)
  <1>1. id \in Procs \cup {Shipped, NoOne} /\ s \in UpdateState
    BY OwnStateTyped
  <1>2. Due(s, mem[p].started) /\ mem' = [mem EXCEPT ![p] = [mem[p] EXCEPT !.owner = id,
                                                                            !.state = state']]
    BY DEF Reserve, Remembers
  <1>3. PICK j \in Jitter : state' = [s EXCEPT !.next = mem[p].started + Day + j]
    BY DEF Reserve
  <1> HIDE DEF s, id
  <1>4. /\ state' \in UpdateState /\ state'.id = s.id /\ state'.next \in Int
        /\ state'.next >= mem[p].started + Day
    <2>1. j \in Nat /\ Day \in Nat /\ mem[p].started \in Nat
      BY StandaloneAssumption, MemoryTyped
    <2>2. mem[p].started + Day + j \in Int /\ mem[p].started + Day + j >= mem[p].started + Day
      BY <2>1
    <2> QED BY <1>1, <1>3, <2>2 DEF UpdateState
  <1> DEFINE m == [mem[p] EXCEPT !.owner = id, !.state = state']
  <1>5. /\ m \in Memory /\ m.exe = mem[p].exe /\ m.owner = id /\ m.started = mem[p].started
        /\ m.state = state'
    BY <1>1, <1>4, MemoryTyped DEF Memory
  <1>6. mem' = [mem EXCEPT ![p] = m]
    BY <1>2
  <1> HIDE DEF m
  <1>7. pc[p] = "reserve" /\ command[p] = "worker" /\ UNCHANGED <<bin, receipt, tx, contact>>
    BY DEF Reserve, Updates, LockInv, PointsKept, PointsOf
  <1>8. GoesOn(p, "check", m, tx[p])
    BY <1>4, <1>5, <1>6, <1>7, DiskTyped, Kept
       DEF Reserve, Updates, Continue, Goto, GoesOn, HoldsLock, ControlPoints
  <1>9. Behaves(p) /\ pc'[p] = "check" /\ mem'[p] = m
    BY <1>8, GoingOnBehaves
  <1> QED BY <1>2, <1>4, <1>5, <1>7, <1>9 DEF s, id

\* A check is a contact, and puts off the next one further.
LEMMA ChecksMoves ==
  ASSUME LockInv, NEW p \in Procs, WorkerChecks(p), mem[p].state # NoFile
  PROVE  /\ Behaves(p) /\ pc[p] = "check" /\ command[p] = "worker" /\ UNCHANGED disk
         /\ contact' = [id |-> mem[p].state.id, at |-> mem[p].started, saved |-> FALSE]
         /\ pc'[p] = (IF MayInstall(p) THEN "replace" ELSE "save")
         /\ mem'[p].exe = mem[p].exe /\ mem'[p].owner = mem[p].owner
         /\ mem'[p].candidate = release /\ mem'[p].started = mem[p].started
         /\ mem'[p].state # NoFile /\ mem'[p].state.id = mem[p].state.id
         /\ mem'[p].state.next >= mem[p].started + Week
  <1>1. PICK j \in Jitter :
          mem' = [mem EXCEPT ![p] = [mem[p] EXCEPT !.state.next = mem[p].started + Week + j,
                                                    !.candidate = release]]
    BY DEF WorkerChecks, Remembers
  <1> DEFINE s == [mem[p].state EXCEPT !.next = mem[p].started + Week + j]
             m == [mem[p] EXCEPT !.state = s, !.candidate = release]
  <1>2. s \in UpdateState /\ s.id = mem[p].state.id /\ s.next >= mem[p].started + Week
    <2>1. j \in Nat /\ Week \in Nat /\ mem[p].started \in Nat
      BY StandaloneAssumption, MemoryTyped
    <2>2. mem[p].started + Week + j \in Int /\ mem[p].started + Week + j >= mem[p].started + Week
      BY <2>1
    <2> QED BY <2>2, MemoryTyped DEF UpdateState
  <1>3. mem' = [mem EXCEPT ![p] = m]
    BY <1>1
  <1> HIDE DEF s
  <1>4. /\ m \in Memory /\ m.exe = mem[p].exe /\ m.owner = mem[p].owner /\ m.candidate = release
        /\ m.started = mem[p].started /\ m.state = s
    BY <1>2, MemoryTyped DEF Memory
  <1> HIDE DEF m
  <1>5. /\ pc[p] = "check" /\ command[p] = "worker" /\ UNCHANGED <<disk, lock, tx, world, receipt>>
        /\ contact' = [id |-> mem[p].state.id, at |-> mem[p].started, saved |-> FALSE]
    BY DEF WorkerChecks, Updates, Contacts
  <1> DEFINE next == IF MayInstall(p) THEN "replace" ELSE "save"
  <1>6. next \in {"replace", "save"} /\ pc' = [pc EXCEPT ![p] = next] /\ UNCHANGED result
    BY DEF WorkerChecks, Continue, Goto
  <1> HIDE DEF next
  <1>7. GoesOn(p, next, m, tx[p])
    BY <1>3, <1>4, <1>5, <1>6, DiskTyped, Kept
       DEF GoesOn, HoldsLock, ControlPoints, disk
  <1>8. Behaves(p) /\ pc'[p] = next /\ mem'[p] = m
    BY <1>7, GoingOnBehaves
  <1> QED BY <1>2, <1>4, <1>5, <1>8, DiskTyped DEF next

\* So is one that fails, which ends the worker.
LEMMA CheckFailsMoves ==
  ASSUME LockInv, NEW p \in Procs, WorkerCheckFails(p)
  PROVE  /\ Behaves(p) /\ Gone(p) /\ pc[p] = "check" /\ command[p] = "worker" /\ UNCHANGED disk
         /\ contact' = [id |-> mem[p].state.id, at |-> mem[p].started, saved |-> FALSE]
  <1>1. Quits(p)
    BY DEF WorkerCheckFails, Updates, Quits, Results
  <1> QED BY <1>1, QuitBehaves DEF WorkerCheckFails, Contacts

\* A worker that is done puts its check on record.
LEMMA SavesMoves ==
  ASSUME LockInv, NEW p \in Procs, WorkerSaves(p)
  PROVE  /\ Behaves(p) /\ Gone(p) /\ pc[p] = "save" /\ command[p] = "worker"
         /\ UNCHANGED <<bin, receipt>>
         /\ state' = mem[p].state /\ contact' = [contact EXCEPT !.saved = TRUE]
  <1>1. /\ pc[p] = "save" /\ command[p] = "worker" /\ UNCHANGED <<bin, receipt, world>>
        /\ state' = mem[p].state /\ contact' = [contact EXCEPT !.saved = TRUE]
    BY DEF WorkerSaves, Updates, LockInv, PointsKept, PointsOf
  <1>2. \E r \in Results : Finish(p, r)
    BY DEF WorkerSaves, Results
  <1> QED BY <1>1, <1>2, LeaveBehaves, DiskTyped, MemoryTyped
-----------------------------------------------------------------------------
(* What a step of p does to what is known of the others, and of what is on disk *)

\* Nothing is lost to a process by a step that leaves it and the disk alone.
LEMMA Undisturbed ==
  ASSUME NEW q \in Procs, ProcessInv(q), UNCHANGED <<disk, command, bundle, contact>>,
         pc'[q] = pc[q], mem'[q] = mem[q], tx'[q] = tx[q]
  PROVE  ProcessInv(q)'
  <1>1. UNCHANGED <<bin, receipt, state, command, bundle, contact>>
    BY DEF disk
  <1>2. TransactionInv(q)'
    BY <1>1 DEF ProcessInv, TransactionInv, InTransaction, Opened, ReceiptAccounted, LeftAccounted,
                TargetAccounted, Committed
  <1>3. UpdaterInv(q)'
    BY <1>1 DEF ProcessInv, UpdaterInv, StillOwner, receipt_manages_binary, ExeByPath,
                validate_candidate_version
  <1>4. CheckInv(q)' /\ SaveInv(q)'
    BY <1>1 DEF ProcessInv, CheckInv, SaveInv, Interval
  <1> QED BY <1>2, <1>3, <1>4 DEF ProcessInv

\* Nothing is lost to a process that is not past the lock by another's step.
LEMMA Waiting ==
  ASSUME NEW q \in Procs, ProcessInv(q), ~HoldsLock(q), UNCHANGED world,
         pc'[q] = pc[q], mem'[q] = mem[q], tx'[q] = tx[q]
  PROVE  ProcessInv(q)'
  <1>1. UNCHANGED <<command, bundle>>
    BY DEF world
  <1>2. TransactionInv(q)'
    BY <1>1 DEF HoldsLock, TransactionInv, InTransaction
  <1>3. UpdaterInv(q)'
    BY <1>1 DEF HoldsLock, ProcessInv, UpdaterInv, validate_candidate_version
  <1>4. CheckInv(q)' /\ SaveInv(q)'
    BY <1>1 DEF HoldsLock, CheckInv, SaveInv
  <1> QED BY <1>2, <1>3, <1>4 DEF ProcessInv

\* Nobody else is disturbed by a step that is under the lock, or touches nothing on disk.
LEMMA PassedBy ==
  ASSUME LockInv, NEW p \in Procs, Behaves(p), HoldsLock(p) \/ UNCHANGED <<disk, contact>>,
         NEW q \in Procs \ {p}, ProcessInv(q)
  PROVE  ProcessInv(q)'
  <1>1. UNCHANGED world /\ pc'[q] = pc[q] /\ mem'[q] = mem[q] /\ tx'[q] = tx[q]
    BY DEF Behaves, Others
  <1>2. CASE HoldsLock(p)
    BY <1>1, <1>2, OnlyOneHolds, Waiting
  <1>3. CASE UNCHANGED <<disk, contact>>
    BY <1>1, <1>3, Undisturbed DEF world
  <1> QED BY <1>2, <1>3

\* A command that is over has nothing to account for.
LEMMA GoneHasNothing ==
  ASSUME NEW p \in Procs, Gone(p)
  PROVE  ProcessInv(p)' /\ ~InTransaction(p)'
  BY DEF Gone, ProcessInv, TransactionInv, UpdaterInv, CheckInv, SaveInv, InTransaction

\* Whose installation it is stays, through every step of a transaction and of an update.
LEMMA SettledKept ==
  ASSUME LockInv, NEW p \in Procs, Behaves(p),
         \/ UNCHANGED receipt
         \/ InTransaction(p) /\ Opened(p) /\ receipt' \in {receipt, Committed(p), tx[p].prior},
         InTransaction(p)' => InTransaction(p) /\ SameOpening(p),
         NEW id, Settled(id)
  PROVE  Settled(id)'
  <1>1. receipt' # NoFile /\ receipt'.place = "here" /\ receipt'.id = id
    BY CommittedTyped, DiskTyped DEF Settled, Opened, Committed
  <1>2. ASSUME NEW q \in Procs, InTransaction(q)'
        PROVE  tx'[q].prior # NoFile /\ tx'[q].prior.id = id
    <2>1. CASE q = p
      BY <1>2, <2>1 DEF Settled, SameOpening
    <2>2. CASE q # p
      BY <1>2, <2>2 DEF Settled, Behaves, Others, InTransaction
    <2> QED BY <2>1, <2>2
  <1> QED BY <1>1, <1>2 DEF Settled

\* The account of the last contact is kept where it and its installation are.
LEMMA ContactKept ==
  ASSUME ContactInv, UNCHANGED <<state, contact>>, \A id : Settled(id) => Settled(id)'
  PROVE  ContactInv'
  BY DEF ContactInv, Interval
-----------------------------------------------------------------------------
(* The invariant is inductive: one lemma per kind of step *)

\* A step of p keeps all that it does not change itself.
LEMMA Keeps ==
  ASSUME MaintenanceInv, NEW p \in Procs, Behaves(p), HoldsLock(p) \/ UNCHANGED <<disk, contact>>,
         ProcessInv(p)', ContactInv'
  PROVE  MaintenanceInv'
  <1>1. LockInv'
    BY LockStep DEF MaintenanceInv
  <1>2. ASSUME NEW q \in Procs
        PROVE  ProcessInv(q)'
    BY PassedBy DEF MaintenanceInv
  <1> QED BY <1>1, <1>2 DEF MaintenanceInv

\* The end of a command that changes nothing keeps the invariant.
LEMMA QuittingKeeps ==
  ASSUME MaintenanceInv, NEW p \in Procs, Quitting(p)
  PROVE  MaintenanceInv'
  <1>1. Quits(p) /\ UNCHANGED contact /\ Behaves(p) /\ Gone(p)
    BY QuittingQuits, QuitBehaves DEF MaintenanceInv
  <1>2. UNCHANGED <<bin, receipt, state, disk>>
    BY <1>1 DEF Quits, disk
  <1>3. ProcessInv(p)' /\ ~InTransaction(p)'
    BY <1>1, GoneHasNothing
  <1>4. \A id : Settled(id) => Settled(id)'
    BY <1>1, <1>2, <1>3, SettledKept DEF MaintenanceInv
  <1>5. ContactInv'
    BY <1>1, <1>2, <1>4, ContactKept DEF MaintenanceInv
  <1> QED BY <1>1, <1>2, <1>3, <1>5, Keeps

\* So does each step to the lock and under it.
LEMMA ApproachKeeps ==
  ASSUME MaintenanceInv, NEW p \in Procs, Approaching(p)
  PROVE  MaintenanceInv'
  <1>1. Behaves(p) /\ Approached(p) /\ UNCHANGED <<disk, contact>>
    BY ApproachBehaves DEF MaintenanceInv
  <1>2. UNCHANGED <<bin, receipt, state, command>>
    BY <1>1 DEF Behaves, disk, world
  <1>3. ~InTransaction(p)'
    BY <1>1 DEF Approached, Gone, InTransaction
  <1>4. \A id : Settled(id) => Settled(id)'
    BY <1>1, <1>2, <1>3, SettledKept DEF MaintenanceInv
  <1>5. ContactInv'
    BY <1>1, <1>2, <1>4, ContactKept DEF MaintenanceInv
  <1>6. ProcessInv(p)'
    <2> USE DEF Approached
    <2>1. TransactionInv(p)'
      BY <1>3 DEF TransactionInv
    <2>2. pc'[p] # "save" /\ (pc'[p] = "check" => command[p] = "upgrade")
      BY <1>1 DEF Gone
    <2>3. CheckInv(p)'
      BY <1>2, <2>2 DEF CheckInv
    <2>4. (pc'[p] = "replace" => pc[p] = "recheck" /\ StillOwned(p) /\ UNCHANGED mem)
      BY <1>1 DEF Gone
    <2>5. command[p] = "upgrade" \/ pc[p] # "recheck"
      BY DEF MaintenanceInv, LockInv, PointsKept, PointsOf
    <2>6. SaveInv(p)'
      BY <1>2, <2>2, <2>4, <2>5 DEF SaveInv
    <2>7. UpdaterInv(p)'
      <3>1. UpdaterInv(p)
        BY DEF MaintenanceInv, ProcessInv
      <3>2. pc'[p] \in {"check", "lock", "recheck", "replace", "reserve"} => mem'[p].exe \in File
        BY <1>1, <3>1 DEF UpdaterInv, Gone
      <3>3. pc'[p] \in {"lock", "recheck"} /\ command[p] = "upgrade" =>
              /\ mem'[p].owner # NoOne
              /\ validate_candidate_version(mem'[p].exe.version, mem'[p].candidate)
        BY <1>1, <3>1 DEF UpdaterInv, Gone, validate_candidate_version
      <3>4. pc'[p] = "replace" =>
              /\ StillOwner(p)' /\ bin'["crawlson"].version = mem'[p].exe.version
              /\ validate_candidate_version(mem'[p].exe.version, mem'[p].candidate)
        BY <1>2, <2>4, <2>5, <3>1 DEF UpdaterInv, StillOwned, StillOwner, installation_ownership,
                                      receipt_manages_binary, validate_candidate_version
      <3> QED BY <1>2, <2>2, <3>2, <3>3, <3>4 DEF UpdaterInv, validate_candidate_version
    <2> QED BY <2>1, <2>3, <2>6, <2>7 DEF ProcessInv
  <1> QED BY <1>1, <1>5, <1>6, Keeps

\* So does the beginning of a transaction.
LEMMA InspectKeeps ==
  ASSUME MaintenanceInv, NEW p \in Procs, Inspect(p)
  PROVE  MaintenanceInv'
  <1>1. /\ Behaves(p) /\ pc'[p] = "commit" /\ UNCHANGED <<disk, contact>>
        /\ tx'[p].prior = receipt /\ tx'[p].found = bin
        /\ tx'[p].id = (IF receipt = NoFile THEN p ELSE receipt.id)
        /\ tx'[p].backup = NoBackups /\ tx'[p].placed = {} /\ tx'[p].left = {}
        /\ tx'[p].errors = FALSE
    BY InspectOpens DEF MaintenanceInv
  <1>2. UNCHANGED <<bin, receipt, state, command>>
    BY <1>1 DEF Behaves, disk, world
  <1>3. TransactionInv(p)'
    <2>1. Opened(p)'
      <3>1. receipt = NoFile => bin = NoBackups
        BY DiskTyped DEF MaintenanceInv, Inspect, Ownable, NoBackups
      <3>2. receipt # NoFile => receipt.place = "here"
        BY DEF Inspect, Ownable, receipt_manages_binary
      <3> QED BY <1>1, <3>1, <3>2 DEF Opened
    <2>2. ReceiptAccounted(p)' /\ LeftAccounted(p)'
      BY <1>1, <1>2 DEF ReceiptAccounted, LeftAccounted
    <2>3. \A n \in Names : TargetAccounted(p, n)'
      BY <1>1, <1>2 DEF TargetAccounted, NoBackups
    <2> QED BY <2>1, <2>2, <2>3 DEF TransactionInv
  <1>4. ProcessInv(p)'
    BY <1>1, <1>3 DEF ProcessInv, UpdaterInv, CheckInv, SaveInv
  <1>5. ASSUME NEW id, Settled(id)
        PROVE  Settled(id)'
    <2>1. receipt' # NoFile /\ receipt'.place = "here" /\ receipt'.id = id
      BY <1>2, <1>5 DEF Settled
    <2>2. \A q \in Procs : InTransaction(q)' => tx'[q].prior # NoFile /\ tx'[q].prior.id = id
      BY <1>1, <1>5 DEF Settled, Behaves, Others, InTransaction
    <2> QED BY <2>1, <2>2 DEF Settled
  <1>6. ContactInv'
    BY <1>1, <1>2, <1>5, ContactKept DEF MaintenanceInv
  <1> QED BY <1>1, <1>4, <1>6, Keeps

\* Inside its transaction, an installer needs to keep nothing but its own account of it.
LEMMA TransactionKeeps ==
  ASSUME MaintenanceInv, NEW p \in Procs, InTransaction(p), Behaves(p), SameOpening(p),
         pc'[p] \in {"commit", "rollback"}, UNCHANGED <<state, contact>>,
         receipt' \in {receipt, Committed(p)},
         LeftAccounted(p)', \A n \in Names : TargetAccounted(p, n)',
         pc'[p] = "commit" => pc[p] = "commit" /\ UNCHANGED receipt
  PROVE  MaintenanceInv'
  <1>1. Opened(p) /\ ReceiptAccounted(p)
    BY DEF MaintenanceInv, ProcessInv, TransactionInv
  <1>2. Opened(p)' /\ ReceiptAccounted(p)'
    BY <1>1 DEF SameOpening, Opened, ReceiptAccounted, Committed
  <1>3. ProcessInv(p)'
    BY <1>2 DEF ProcessInv, TransactionInv, UpdaterInv, CheckInv, SaveInv
  <1>4. \A id : Settled(id) => Settled(id)'
    BY <1>1, SettledKept DEF MaintenanceInv
  <1>5. ContactInv'
    BY <1>4, ContactKept DEF MaintenanceInv
  <1>6. HoldsLock(p)
    BY DEF HoldsLock, InTransaction
  <1> QED BY <1>3, <1>5, <1>6, Keeps

\* What is known inside a transaction.
LEMMA InTheMiddle ==
  ASSUME MaintenanceInv, NEW p \in Procs, InTransaction(p)
  PROVE  /\ LockInv /\ Opened(p) /\ ReceiptAccounted(p) /\ LeftAccounted(p)
         /\ \A n \in Names : TargetAccounted(p, n)
  BY DEF MaintenanceInv, ProcessInv, TransactionInv

\* A backup keeps the invariant.
LEMMA BackUpKeeps ==
  ASSUME MaintenanceInv, NEW p \in Procs, BackUp(p)
  PROVE  MaintenanceInv'
  <1> DEFINE n == First(ToBackUp(p))
  <1>0. InTransaction(p) /\ pc[p] = "commit"
    BY DEF BackUp, Commits, InTransaction
  <1>1. /\ Behaves(p) /\ pc'[p] = "commit" /\ SameOpening(p)
        /\ UNCHANGED <<receipt, state, contact>>
        /\ n \in ToBackUp(p) /\ bin' = [bin EXCEPT ![n] = NoFile]
        /\ tx'[p].backup = [tx[p].backup EXCEPT ![n] = bin[n]]
        /\ tx'[p].placed = tx[p].placed /\ tx'[p].left = tx[p].left
        /\ tx'[p].errors = tx[p].errors
    BY BackUpMoves DEF MaintenanceInv
  <1> HIDE DEF n
  <1>2. /\ n \in Names /\ tx[p].found[n] # NoFile /\ tx[p].backup[n] = NoFile
        /\ ~tx[p].errors /\ n \notin tx[p].placed /\ bin[n] = tx[p].found[n]
    BY <1>0, <1>1, InTheMiddle DEF ToBackUp, TargetAccounted, LeftAccounted
  <1>3. LeftAccounted(p)'
    BY <1>1, <1>2 DEF LeftAccounted
  <1>4. ASSUME NEW k \in Names
        PROVE  TargetAccounted(p, k)'
    <2>1. TargetAccounted(p, k) /\ UNCHANGED bundle
      BY <1>0, <1>1, InTheMiddle DEF Behaves, world
    <2>2. bin \in [Names -> File \cup {NoFile}] /\ tx[p].backup \in [Names -> File \cup {NoFile}]
      BY DiskTyped, TransactionTyped DEF MaintenanceInv
    <2>3. CASE k = n
      BY <1>1, <1>2, <2>1, <2>2, <2>3 DEF TargetAccounted, SameOpening
    <2>4. CASE k # n
      BY <1>1, <1>2, <2>1, <2>2, <2>4 DEF TargetAccounted, SameOpening
    <2> QED BY <2>3, <2>4
  <1> QED BY <1>0, <1>1, <1>3, <1>4, TransactionKeeps

\* So does a placement.
LEMMA PlaceKeeps ==
  ASSUME MaintenanceInv, NEW p \in Procs, Place(p)
  PROVE  MaintenanceInv'
  <1> DEFINE n == First(ToPlace(p))
  <1>0. InTransaction(p) /\ pc[p] = "commit"
    BY DEF Place, Commits, InTransaction
  <1>1. /\ Behaves(p) /\ pc'[p] = "commit" /\ SameOpening(p)
        /\ UNCHANGED <<receipt, state, contact>>
        /\ n \in ToPlace(p) /\ n \in Names
        /\ bin' = [bin EXCEPT ![n] = [version |-> bundle[p], by |-> p]]
        /\ tx'[p].placed = tx[p].placed \cup {n}
        /\ tx'[p].backup = tx[p].backup /\ tx'[p].left = tx[p].left
        /\ tx'[p].errors = tx[p].errors
    BY PlaceMoves DEF MaintenanceInv
  <1> HIDE DEF n
  <1>2. tx[p].backup[n] = tx[p].found[n] /\ ~tx[p].errors
    <2>1. ToBackUp(p) = {}
      BY <1>1 DEF ToPlace
    <2>2. TargetAccounted(p, n) /\ LeftAccounted(p)
      BY <1>0, <1>1, InTheMiddle
    <2> QED BY <1>0, <1>1, <2>1, <2>2 DEF ToBackUp, TargetAccounted, LeftAccounted
  <1>3. LeftAccounted(p)'
    BY <1>1, <1>2 DEF LeftAccounted
  <1>4. ASSUME NEW k \in Names
        PROVE  TargetAccounted(p, k)'
    <2>1. TargetAccounted(p, k) /\ UNCHANGED bundle
      BY <1>0, <1>1, InTheMiddle DEF Behaves, world
    <2>2. bin \in [Names -> File \cup {NoFile}]
      BY DiskTyped DEF MaintenanceInv
    <2>3. CASE k = n
      BY <1>1, <1>2, <2>1, <2>2, <2>3 DEF TargetAccounted, SameOpening
    <2>4. CASE k # n
      BY <1>1, <1>2, <2>1, <2>2, <2>4 DEF TargetAccounted, SameOpening
    <2> QED BY <2>3, <2>4
  <1> QED BY <1>0, <1>1, <1>3, <1>4, TransactionKeeps

\* So does a commit that fails.
LEMMA CommitFailsKeeps ==
  ASSUME MaintenanceInv, NEW p \in Procs, CommitFails(p)
  PROVE  MaintenanceInv'
  <1>0. InTransaction(p) /\ pc[p] = "commit"
    BY DEF CommitFails, Commits, InTransaction
  <1>1. /\ Behaves(p) /\ pc'[p] = "rollback" /\ SameOpening(p)
        /\ UNCHANGED <<bin, state, contact>>
        /\ receipt' \in {receipt, Committed(p)}
        /\ tx'[p].backup = tx[p].backup /\ tx'[p].placed = tx[p].placed
        /\ tx'[p].left = Undone(p) /\ tx'[p].errors = tx[p].errors
    BY <1>0, CommitFailsMoves, InTheMiddle
  <1>2. LeftAccounted(p)'
    BY <1>1 DEF LeftAccounted, Undone
  <1>3. ASSUME NEW k \in Names
        PROVE  TargetAccounted(p, k)'
    <2>1. TargetAccounted(p, k) /\ UNCHANGED bundle
      BY <1>0, <1>1, InTheMiddle DEF Behaves, world
    <2> QED BY <1>1, <2>1 DEF TargetAccounted, SameOpening
  <1> QED BY <1>0, <1>1, <1>2, <1>3, TransactionKeeps

\* So does a rollback that removes, or fails to.
LEMMA RemoveNewKeeps ==
  ASSUME MaintenanceInv, NEW p \in Procs, RemoveNew(p)
  PROVE  MaintenanceInv'
  <1> DEFINE n == Last(tx[p].left)
  <1>0. InTransaction(p) /\ pc[p] = "rollback"
    BY DEF RemoveNew, RollsBack, InTransaction
  <1>1. PICK removed \in BOOLEAN :
          /\ Behaves(p) /\ pc'[p] = "rollback" /\ SameOpening(p)
          /\ UNCHANGED <<receipt, state, contact>>
          /\ n \in tx[p].left /\ n \in tx[p].placed /\ n \in Names
          /\ bin' = IF removed THEN [bin EXCEPT ![n] = NoFile] ELSE bin
          /\ tx'[p].backup = tx[p].backup /\ tx'[p].placed = tx[p].placed \ {n}
          /\ tx'[p].left = (IF tx[p].backup[n] = NoFile THEN tx[p].left \ {n} ELSE tx[p].left)
          /\ tx'[p].errors = (tx[p].errors \/ ~removed)
    BY RemoveNewMoves DEF MaintenanceInv
  <1> HIDE DEF n
  <1>2. tx[p].errors \in BOOLEAN
    BY TransactionTyped DEF MaintenanceInv
  <1>3. LeftAccounted(p)'
    <2>1. LeftAccounted(p)
      BY <1>0, InTheMiddle
    <2>2. tx[p].left \subseteq Undone(p) /\ (~tx[p].errors => tx[p].left = Undone(p))
      BY <1>0, <2>1 DEF LeftAccounted, Undone
    <2>3. Undone(p)' = tx'[p].placed \cup {k \in Names : tx[p].backup[k] # NoFile}
      BY <1>1 DEF Undone
    <2>4. tx'[p].left \subseteq Undone(p)' /\ (~tx[p].errors => tx'[p].left = Undone(p)')
      BY <1>1, <2>2, <2>3 DEF Undone
    <2> QED BY <1>1, <1>2, <2>4 DEF LeftAccounted, Undone
  <1>4. ASSUME NEW k \in Names
        PROVE  TargetAccounted(p, k)'
    <2>1. TargetAccounted(p, k) /\ UNCHANGED bundle
      BY <1>0, <1>1, InTheMiddle DEF Behaves, world
    <2>2. bin \in [Names -> File \cup {NoFile}]
      BY DiskTyped DEF MaintenanceInv
    <2>3. ~tx'[p].errors => removed /\ ~tx[p].errors
      BY <1>1, <1>2
    <2>4. CASE k = n
      BY <1>1, <2>1, <2>2, <2>3, <2>4 DEF TargetAccounted, SameOpening
    <2>5. CASE k # n
      BY <1>1, <2>1, <2>2, <2>3, <2>5 DEF TargetAccounted, SameOpening
    <2> QED BY <2>4, <2>5
  <1> QED BY <1>0, <1>1, <1>3, <1>4, TransactionKeeps

\* So does a rollback that restores, or fails to.
LEMMA RestoreOldKeeps ==
  ASSUME MaintenanceInv, NEW p \in Procs, RestoreOld(p)
  PROVE  MaintenanceInv'
  <1> DEFINE n == Last(tx[p].left)
  <1>0. InTransaction(p) /\ pc[p] = "rollback"
    BY DEF RestoreOld, RollsBack, InTransaction
  <1>1. PICK restored \in BOOLEAN :
          /\ Behaves(p) /\ pc'[p] = "rollback" /\ SameOpening(p)
          /\ UNCHANGED <<receipt, state, contact>>
          /\ n \in tx[p].left /\ n \notin tx[p].placed /\ n \in Names
          /\ bin' = IF restored THEN [bin EXCEPT ![n] = tx[p].backup[n]] ELSE bin
          /\ tx'[p].backup = (IF restored THEN [tx[p].backup EXCEPT ![n] = NoFile]
                                          ELSE tx[p].backup)
          /\ tx'[p].placed = tx[p].placed /\ tx'[p].left = tx[p].left \ {n}
          /\ tx'[p].errors = (tx[p].errors \/ ~restored)
    BY RestoreOldMoves DEF MaintenanceInv
  <1> HIDE DEF n
  <1>2. /\ tx[p].errors \in BOOLEAN /\ tx[p].backup \in [Names -> File \cup {NoFile}]
        /\ bin \in [Names -> File \cup {NoFile}]
        /\ ~tx'[p].errors => restored /\ ~tx[p].errors
    BY <1>1, TransactionTyped, DiskTyped DEF MaintenanceInv
  <1>3. tx[p].left \subseteq Undone(p) /\ (~tx[p].errors => tx[p].left = Undone(p))
    BY <1>0, InTheMiddle DEF LeftAccounted, Undone
  <1>4. tx[p].backup[n] # NoFile /\ tx[p].backup[n] = tx[p].found[n]
    <2>1. TargetAccounted(p, n)
      BY <1>0, <1>1, InTheMiddle
    <2>2. n \in Undone(p) /\ n \notin tx[p].placed
      BY <1>1, <1>3
    <2> QED BY <2>1, <2>2 DEF Undone, TargetAccounted
  <1>5. LeftAccounted(p)'
    <2>1. CASE restored
      BY <1>1, <1>2, <1>3, <2>1 DEF LeftAccounted, Undone
    <2>2. CASE ~restored
      BY <1>1, <1>2, <1>3, <2>2 DEF LeftAccounted, Undone
    <2> QED BY <2>1, <2>2
  <1>6. ASSUME NEW k \in Names
        PROVE  TargetAccounted(p, k)'
    <2>1. TargetAccounted(p, k) /\ UNCHANGED bundle
      BY <1>0, <1>1, InTheMiddle DEF Behaves, world
    <2>2. CASE k = n
      BY <1>1, <1>2, <1>4, <2>1, <2>2 DEF TargetAccounted, SameOpening
    <2>3. CASE k # n
      BY <1>1, <1>2, <2>1, <2>3 DEF TargetAccounted, SameOpening
    <2> QED BY <2>2, <2>3
  <1> QED BY <1>0, <1>1, <1>5, <1>6, TransactionKeeps

\* So does the end of a transaction.
LEMMA EndingKeeps ==
  ASSUME MaintenanceInv, NEW p \in Procs, Ending(p)
  PROVE  MaintenanceInv'
  <1>1. InTransaction(p) /\ HoldsLock(p)
    BY DEF Ending, write_install_receipt, restore_receipt, Commits, RollsBack, InTransaction,
           HoldsLock
  <1>2. Opened(p)
    BY <1>1, InTheMiddle
  <1>3. /\ Behaves(p) /\ Gone(p) /\ UNCHANGED <<state, contact>>
        /\ receipt' \in {receipt, Committed(p), tx[p].prior}
    BY <1>2, EndingMoves DEF MaintenanceInv
  <1>4. ProcessInv(p)' /\ ~InTransaction(p)'
    BY <1>3, GoneHasNothing
  <1>5. \A id : Settled(id) => Settled(id)'
    BY <1>1, <1>2, <1>3, <1>4, SettledKept DEF MaintenanceInv
  <1>6. ContactInv'
    BY <1>3, <1>5, ContactKept DEF MaintenanceInv
  <1> QED BY <1>1, <1>3, <1>4, <1>6, Keeps

\* An updater about to replace the binary has what the replacement needs.
LEMMA ReadyToReplace ==
  ASSUME MaintenanceInv, NEW p \in Procs, pc[p] = "replace"
  PROVE  /\ LockInv /\ HoldsLock(p) /\ StillOwner(p) /\ mem[p].exe \in File
         /\ mem[p].candidate \in Versions /\ mem[p].candidate > mem[p].exe.version
         /\ ~ExeByPath \/ command[p] = "upgrade" => bin["crawlson"].version = mem[p].exe.version
         /\ command[p] = "worker" => mem[p].state # NoFile
  BY DEF MaintenanceInv, ProcessInv, UpdaterInv, SaveInv, HoldsLock, validate_candidate_version

\* So does a replacement.
LEMMA ReplacingKeeps ==
  ASSUME MaintenanceInv, NEW p \in Procs, Replacing(p)
  PROVE  MaintenanceInv'
  <1>1. pc[p] = "replace" /\ (WorkerReplaces(p) => command[p] = "worker")
    BY DEF Replacing, UpgradeReplaces, WorkerReplaces
  <1>2. /\ LockInv /\ HoldsLock(p) /\ mem[p].exe \in File /\ mem[p].candidate \in Versions
        /\ WorkerReplaces(p) => mem[p].state # NoFile
    BY <1>1, ReadyToReplace
  <1>3. /\ Behaves(p) /\ UNCHANGED <<receipt, state, contact>>
        /\ \/ Gone(p)
           \/ /\ pc'[p] = "save" /\ command[p] = "worker"
              /\ mem[p].state # NoFile /\ mem'[p].state # NoFile
              /\ mem'[p].exe = mem[p].exe /\ mem'[p].started = mem[p].started
              /\ mem'[p].state.id = mem[p].state.id /\ mem'[p].state.next = mem[p].state.next
    BY <1>2, ReplacingMoves
  <1>4. ProcessInv(p)' /\ ~InTransaction(p)'
    <2>1. CASE Gone(p)
      BY <2>1, GoneHasNothing
    <2>2. CASE ~Gone(p)
      <3>1. ~InTransaction(p)' /\ TransactionInv(p)' /\ CheckInv(p)'
        BY <1>3, <2>2 DEF InTransaction, TransactionInv, CheckInv
      <3>2. UpdaterInv(p)'
        BY <1>2, <1>3, <2>2 DEF UpdaterInv
      <3>3. SaveInv(p)
        BY DEF MaintenanceInv, ProcessInv
      <3>4. SaveInv(p)'
        BY <1>1, <1>3, <2>2, <3>3 DEF SaveInv
      <3> QED BY <3>1, <3>2, <3>4 DEF ProcessInv
    <2> QED BY <2>1, <2>2
  <1>5. \A id : Settled(id) => Settled(id)'
    BY <1>2, <1>3, <1>4, SettledKept
  <1>6. ContactInv'
    BY <1>3, <1>5, ContactKept DEF MaintenanceInv
  <1> QED BY <1>2, <1>3, <1>4, <1>6, Keeps

\* The last contact has its type, and the intervals are numbers.
LEMMA ContactTyped ==
  ASSUME MaintenanceInv
  PROVE  /\ contact \in [id : Procs \cup {Shipped, NoOne}, at : 0 .. MaxTime, saved : BOOLEAN]
         /\ contact.id \in Procs \cup {Shipped, NoOne} /\ contact.at \in Nat
         /\ contact.saved \in BOOLEAN /\ Interval \in Nat /\ Day \in Nat /\ Week \in Nat
         /\ Day > 0 /\ Day <= Week
         /\ NoOne \notin Procs /\ Shipped # NoOne /\ Shipped \notin Procs
  BY StandaloneAssumption DEF MaintenanceInv, ContactInv, Interval

\* A reservation keeps the invariant.
LEMMA ReserveKeeps ==
  ASSUME MaintenanceInv, NEW p \in Procs, Reserve(p)
  PROVE  MaintenanceInv'
  <1> DEFINE id == installation_ownership(p)
             s == OwnState(p, id)
  <1>0. LockInv
    BY DEF MaintenanceInv
  <1>1. /\ Behaves(p) /\ pc[p] = "reserve" /\ pc'[p] = "check" /\ command[p] = "worker"
        /\ UNCHANGED <<bin, receipt, tx, contact>> /\ Due(s, mem[p].started)
        /\ state' \in UpdateState /\ state'.id = s.id
        /\ state'.next \in Int /\ state'.next >= mem[p].started + Day
        /\ mem'[p].exe = mem[p].exe /\ mem'[p].owner = id
        /\ mem'[p].started = mem[p].started /\ mem'[p].state = state'
    BY <1>0, ReserveMoves
  <1>2. /\ id \in Procs \cup {Shipped, NoOne} /\ s \in UpdateState
        /\ \/ s = state /\ state # NoFile /\ id \in {NoOne, state.id}
           \/ /\ s = FreshState(IF id = NoOne THEN p ELSE id)
              /\ state = NoFile \/ id \notin {NoOne, state.id}
    BY <1>0, OwnStateTyped
  <1>3. id # NoOne => /\ receipt_manages_binary /\ receipt.id = id
                      /\ ExeByPath \/ bin["crawlson"] = mem[p].exe
    BY DEF installation_ownership, ExeAtPrefix
  <1> HIDE DEF id, s
  <1>4. HoldsLock(p) /\ UNCHANGED command
    BY <1>1 DEF HoldsLock, Behaves, world
  <1>5. mem[p].started \in Nat /\ s.next <= mem[p].started /\ s.next \in Int
    BY <1>0, <1>1, <1>2, MemoryTyped, DiskTyped DEF Due, UpdateState
  <1>6. \A q \in Procs : ~InTransaction(q)'
    <2>1. ASSUME NEW q \in Procs \ {p}
          PROVE  ~InTransaction(q)'
      BY <1>0, <1>1, <1>4, OnlyOneHolds DEF Behaves, Others, HoldsLock, InTransaction
    <2> QED BY <1>1, <2>1 DEF InTransaction
  <1>7. /\ state = NoFile => contact.id = NoOne
        /\ state # NoFile /\ state.id = contact.id => state.next >= contact.at + Interval
        /\ state # NoFile /\ contact.id \notin {NoOne, state.id} => Settled(state.id)
    BY DEF MaintenanceInv, ContactInv
  <1>8. /\ state'.id = contact.id => /\ state'.next >= contact.at + Interval
                                    /\ mem[p].started - contact.at >= Interval
        /\ \A i : i = state'.id /\ contact.id \notin {NoOne, i} => Settled(i)'
    <2>1. CASE s = state /\ state # NoFile
      <3>1. state'.id = contact.id => /\ state'.next >= contact.at + Interval
                                      /\ mem[p].started - contact.at >= Interval
        BY <1>1, <1>5, <1>7, <2>1, ContactTyped
      <3>2. \A i : i = state'.id /\ contact.id \notin {NoOne, i} => Settled(i)'
        BY <1>1, <1>6, <1>7, <2>1 DEF Settled
      <3> QED BY <3>1, <3>2
    <2>2. CASE /\ s = FreshState(IF id = NoOne THEN p ELSE id)
               /\ state = NoFile \/ id \notin {NoOne, state.id}
      <3>1. state'.id = (IF id = NoOne THEN p ELSE id) /\ state'.id # NoOne
        BY <1>1, <2>2, ContactTyped DEF FreshState
      <3>2. CASE state = NoFile
        BY <1>7, <3>1, <3>2
      <3>3. CASE state # NoFile
        <4>1. id # NoOne /\ id # state.id /\ receipt.id = id /\ state'.id = id
          BY <1>3, <2>2, <3>1, <3>3
        <4>2. contact.id # id
          BY <1>7, <3>3, <4>1 DEF Settled
        <4>3. \A i : i = id => Settled(i)'
          BY <1>1, <1>3, <1>6, <4>1 DEF Settled, receipt_manages_binary
        <4> QED BY <4>1, <4>2, <4>3
      <3> QED BY <3>2, <3>3
    <2> QED BY <1>2, <2>1, <2>2
  <1>9. ContactInv'
    <2>1. state' # NoFile /\ UNCHANGED contact /\ Interval' = Interval
      BY <1>1, <1>0, DiskTyped DEF Interval
    <2> QED BY <1>8, <2>1, ContactTyped DEF ContactInv
  <1>10. ProcessInv(p)'
    <2>1. TransactionInv(p)' /\ SaveInv(p)'
      BY <1>1, <1>6 DEF TransactionInv, SaveInv
    <2>2. CheckInv(p)'
      BY <1>0, <1>1, <1>8, DiskTyped DEF CheckInv, Interval
    <2>3. UpdaterInv(p)'
      <3>1. mem'[p].exe \in File
        BY <1>1 DEF MaintenanceInv, ProcessInv, UpdaterInv
      <3> QED BY <1>1, <1>3, <1>4, <3>1 DEF UpdaterInv, StillOwner, receipt_manages_binary, ExeByPath
    <2> QED BY <2>1, <2>2, <2>3 DEF ProcessInv
  <1> QED BY <1>1, <1>4, <1>9, <1>10, Keeps

\* So does a check.
LEMMA ChecksKeeps ==
  ASSUME MaintenanceInv, NEW p \in Procs, WorkerChecks(p)
  PROVE  MaintenanceInv'
  <1>0. LockInv
    BY DEF MaintenanceInv
  <1>1. pc[p] = "check" /\ command[p] = "worker" /\ HoldsLock(p)
    BY DEF WorkerChecks, HoldsLock
  <1>2. /\ state = mem[p].state /\ state # NoFile /\ state.next >= mem[p].started + Day
    BY <1>1 DEF MaintenanceInv, ProcessInv, CheckInv
  <1>3. /\ Behaves(p) /\ UNCHANGED disk
        /\ contact' = [id |-> mem[p].state.id, at |-> mem[p].started, saved |-> FALSE]
        /\ pc'[p] = (IF MayInstall(p) THEN "replace" ELSE "save")
        /\ mem'[p].exe = mem[p].exe /\ mem'[p].owner = mem[p].owner
        /\ mem'[p].candidate = release /\ mem'[p].started = mem[p].started
        /\ mem'[p].state # NoFile /\ mem'[p].state.id = mem[p].state.id
        /\ mem'[p].state.next >= mem[p].started + Week
    BY <1>0, <1>2, ChecksMoves
  <1>4. UNCHANGED <<bin, receipt, state, command>>
    BY <1>3 DEF Behaves, disk, world
  <1>5. ContactInv'
    <2>1. contact' \in [id : Procs \cup {Shipped, NoOne}, at : 0 .. MaxTime, saved : BOOLEAN]
      BY <1>0, <1>2, <1>3, MemoryTyped DEF UpdateState
    <2>2. Interval' = Day
      BY <1>3 DEF Interval
    <2> QED BY <1>2, <1>3, <1>4, <2>1, <2>2 DEF ContactInv
  <1>6. ProcessInv(p)'
    <2>1. TransactionInv(p)' /\ CheckInv(p)'
      BY <1>3 DEF TransactionInv, InTransaction, CheckInv
    <2>2. SaveInv(p)'
      BY <1>3 DEF SaveInv
    <2>3. UpdaterInv(p)
      BY DEF MaintenanceInv, ProcessInv
    <2>4. mem'[p].exe \in File
      BY <1>1, <1>3, <2>3 DEF UpdaterInv
    <2>5. UpdaterInv(p)'
      <3>1. CASE MayInstall(p)
        <4>1. /\ StillOwner(p) /\ (ExeByPath \/ bin["crawlson"] = mem[p].exe)
              /\ validate_candidate_version(mem[p].exe.version, release)
          BY <1>1, <2>3, <3>1 DEF UpdaterInv, MayInstall
        <4> QED BY <1>1, <1>3, <1>4, <2>4, <3>1, <4>1
                DEF UpdaterInv, StillOwner, receipt_manages_binary, ExeByPath,
                    validate_candidate_version
      <3>2. CASE ~MayInstall(p)
        BY <1>3, <2>4, <3>2 DEF UpdaterInv
      <3> QED BY <3>1, <3>2
    <2> QED BY <2>1, <2>2, <2>5 DEF ProcessInv
  <1> QED BY <1>1, <1>3, <1>5, <1>6, Keeps

\* So does a check that fails.
LEMMA CheckFailsKeeps ==
  ASSUME MaintenanceInv, NEW p \in Procs, WorkerCheckFails(p)
  PROVE  MaintenanceInv'
  <1>0. LockInv
    BY DEF MaintenanceInv
  <1>1. /\ Behaves(p) /\ Gone(p) /\ pc[p] = "check" /\ command[p] = "worker" /\ UNCHANGED disk
        /\ contact' = [id |-> mem[p].state.id, at |-> mem[p].started, saved |-> FALSE]
    BY <1>0, CheckFailsMoves
  <1>2. /\ state = mem[p].state /\ state # NoFile /\ state.next >= mem[p].started + Day
    BY <1>1 DEF MaintenanceInv, ProcessInv, CheckInv
  <1>3. ContactInv'
    <2>1. contact' \in [id : Procs \cup {Shipped, NoOne}, at : 0 .. MaxTime, saved : BOOLEAN]
      BY <1>0, <1>1, <1>2, MemoryTyped DEF UpdateState
    <2>2. Interval' = Day /\ UNCHANGED state
      BY <1>1 DEF Interval, disk
    <2> QED BY <1>1, <1>2, <2>1, <2>2 DEF ContactInv
  <1>4. HoldsLock(p)
    BY <1>1 DEF HoldsLock
  <1> QED BY <1>1, <1>3, <1>4, GoneHasNothing, Keeps

\* So does the record of a check.
LEMMA SavesKeeps ==
  ASSUME MaintenanceInv, NEW p \in Procs, WorkerSaves(p)
  PROVE  MaintenanceInv'
  <1>0. LockInv
    BY DEF MaintenanceInv
  <1>1. /\ Behaves(p) /\ Gone(p) /\ pc[p] = "save" /\ command[p] = "worker"
        /\ state' = mem[p].state /\ contact' = [contact EXCEPT !.saved = TRUE]
    BY <1>0, SavesMoves
  <1>2. /\ mem[p].state # NoFile /\ mem[p].state.id = contact.id /\ mem[p].started = contact.at
        /\ mem[p].state.next >= mem[p].started + Week
    BY <1>1 DEF MaintenanceInv, ProcessInv, SaveInv
  <1>3. ContactInv'
    <2>1. /\ contact' \in [id : Procs \cup {Shipped, NoOne}, at : 0 .. MaxTime, saved : BOOLEAN]
          /\ contact'.id = contact.id /\ contact'.at = contact.at /\ contact'.saved = TRUE
      BY <1>1, ContactTyped
    <2>2. Interval' = Week
      BY <2>1 DEF Interval
    <2> QED BY <1>1, <1>2, <2>1, <2>2 DEF ContactInv
  <1>4. HoldsLock(p)
    BY <1>1 DEF HoldsLock
  <1> QED BY <1>1, <1>3, <1>4, GoneHasNothing, Keeps

\* So do the clock and a new release.
LEMMA OutsideKeeps ==
  ASSUME MaintenanceInv, Tick \/ Publish \/ UNCHANGED vars
  PROVE  MaintenanceInv'
  <1>0. LockInv
    BY DEF MaintenanceInv
  <1>1. UNCHANGED <<disk, lock, command, bundle, pc, result, mem, tx, contact>>
    BY DEF Tick, Publish, vars, disk
  <1>2. UNCHANGED <<bin, receipt, state>>
    BY <1>1 DEF disk
  <1>3. now' \in 0 .. MaxTime /\ release' \in Versions \cup {0}
    BY <1>0, StandaloneAssumption DEF Tick, Publish, vars, LockInv, MaintenanceTypeOK, DiskOK
  <1>4. LockInv'
    <2>1. MaintenanceTypeOK'
      BY <1>0, <1>1, <1>2, <1>3 DEF LockInv, MaintenanceTypeOK, DiskOK, ProcessesOK
    <2>2. LockKept'
      BY <1>0, <1>1 DEF LockInv, LockKept, HoldsLock
    <2>3. PointsKept'
      BY <1>0, <1>1 DEF LockInv, PointsKept, PointsOf
    <2> QED BY <2>1, <2>2, <2>3 DEF LockInv
  <1>5. \A q \in Procs : ProcessInv(q)'
    BY <1>1, Undisturbed DEF MaintenanceInv
  <1>6. \A id : Settled(id) => Settled(id)'
    BY <1>1, <1>2 DEF Settled, InTransaction
  <1>7. ContactInv'
    BY <1>1, <1>2, <1>6, ContactKept DEF MaintenanceInv
  <1> QED BY <1>4, <1>5, <1>7 DEF MaintenanceInv

\* Every step of a process is of one of these kinds.
Kinds(p) ==
  \/ Quitting(p) \/ Approaching(p) \/ Inspect(p)
  \/ BackUp(p) \/ Place(p) \/ CommitFails(p) \/ RemoveNew(p) \/ RestoreOld(p) \/ Ending(p)
  \/ Replacing(p) \/ Reserve(p) \/ WorkerChecks(p) \/ WorkerCheckFails(p) \/ WorkerSaves(p)

\* Every step is of one of the kinds, or the world's.
LEMMA NextKinds ==
  ASSUME [Next]_vars
  PROVE  (\E p \in Procs : Kinds(p)) \/ Tick \/ Publish \/ UNCHANGED vars
  BY DEF Next, InstallStep, UpdateStep, Kinds, Quitting, Approaching, Ending, Replacing

\* The invariant holds at the start.
LEMMA MaintenanceInit ==
  ASSUME Init
  PROVE  MaintenanceInv
  <1>1. NoOne \notin Procs /\ MaxTime \in Nat
    BY StandaloneAssumption
  <1>2. MaintenanceTypeOK
    <2>1. DiskOK
      BY <1>1, MaintenanceAssumption DEF Init, DiskOK
    <2>2. command \in [Procs -> Commands] /\ bundle \in [Procs -> Versions]
      BY MaintenanceAssumption DEF Init
    <2> QED BY <2>1, <2>2, NothingTyped DEF Init, MaintenanceTypeOK, ProcessesOK, ControlPoints,
                                            Results
  <1>3. LockKept /\ PointsKept
    BY DEF Init, LockKept, HoldsLock, PointsKept, PointsOf
  <1>4. ContactInv
    BY <1>1 DEF Init, NoContact, ContactInv
  <1>5. \A p \in Procs : ProcessInv(p)
    BY DEF Init, ProcessInv, TransactionInv, InTransaction, UpdaterInv, CheckInv, SaveInv
  <1> QED BY <1>2, <1>3, <1>4, <1>5 DEF MaintenanceInv, LockInv

\* The invariant holds after every step.
LEMMA MaintenanceStep ==
  ASSUME MaintenanceInv, [Next]_vars
  PROVE  MaintenanceInv'
  <1>1. ASSUME NEW p \in Procs, Kinds(p)
        PROVE  MaintenanceInv'
    BY <1>1, QuittingKeeps, ApproachKeeps, InspectKeeps, BackUpKeeps, PlaceKeeps, CommitFailsKeeps,
       RemoveNewKeeps, RestoreOldKeeps, EndingKeeps, ReplacingKeeps, ReserveKeeps, ChecksKeeps,
       CheckFailsKeeps, SavesKeeps DEF Kinds
  <1> QED BY <1>1, NextKinds, OutsideKeeps

\* The inductive invariant: who holds the lock, what each transaction has found, moved and
\* has still to restore, what each updater has verified, and when the next check is due
\* (install, commit_targets, rollback_targets, run_manual, periodic_worker).
THEOREM MaintenanceInvariant == Spec => []MaintenanceInv
  <1>1. Init => MaintenanceInv
    BY MaintenanceInit
  <1>2. MaintenanceInv /\ [Next]_vars => MaintenanceInv'
    BY MaintenanceStep
  <1> QED BY <1>1, <1>2, PTL DEF Spec

\* Every file, record and memory of installers and updaters has the type it is declared with,
\* however they interleave and wherever they are killed.
THEOREM MaintenanceTypeCorrect == Spec => []MaintenanceTypeOK
  <1>1. MaintenanceInv => MaintenanceTypeOK
    BY DEF MaintenanceInv, LockInv
  <1> QED BY <1>1, MaintenanceInvariant, PTL
-----------------------------------------------------------------------------
(* What the invariant means for the files of an installation *)

\* Only these steps change a binary.
BinSteps(p) == BackUp(p) \/ Place(p) \/ RemoveNew(p) \/ RestoreOld(p) \/ Replacing(p)

\* Only the steps listed change a binary.
LEMMA BinChanges ==
  ASSUME MaintenanceInv, [Next]_vars, bin' # bin
  PROVE  \E p \in Procs : BinSteps(p)
  <1>0. LockInv
    BY DEF MaintenanceInv
  <1>1. ~Tick /\ ~Publish /\ ~UNCHANGED vars
    BY DEF Tick, Publish, vars, disk
  <1>2. PICK p \in Procs : Kinds(p)
    BY <1>1, NextKinds
  <1>3. ~Quitting(p)
    BY <1>0, QuittingQuits DEF Quits, disk
  <1>4. ~Approaching(p)
    BY <1>0, ApproachBehaves DEF disk
  <1>5. ~Inspect(p) /\ ~CommitFails(p) /\ ~Ending(p)
    BY DEF Inspect, CommitFails, Ending, write_install_receipt, restore_receipt
  <1>6. ~Reserve(p) /\ ~WorkerChecks(p) /\ ~WorkerCheckFails(p) /\ ~WorkerSaves(p)
    BY DEF Reserve, WorkerChecks, WorkerCheckFails, WorkerSaves, disk
  <1> QED BY <1>2, <1>3, <1>4, <1>5, <1>6 DEF Kinds, BinSteps

\* Every step that changes a binary is made under the lock.
LEMMA BinStepsHoldLock ==
  ASSUME NEW p \in Procs, BinSteps(p)
  PROVE  HoldsLock(p)
  BY DEF BinSteps, BackUp, Place, RemoveNew, RestoreOld, Commits, RollsBack, Replacing,
         UpgradeReplaces, WorkerReplaces, HoldsLock

\* No binary an installer found is lost while it works, wherever it may be killed, unless a
\* removal or a restoration has failed (commit_targets, rollback_targets).
THEOREM NoBinaryIsLost == Spec => []NothingLost
  <1>1. MaintenanceInv => NothingLost
    <2>1. ASSUME MaintenanceInv, NEW p \in Procs, InTransaction(p), ~tx[p].errors, NEW n \in Names
          PROVE  tx[p].found[n] \in {bin[n], tx[p].backup[n], NoFile}
      BY <2>1, InTheMiddle DEF TargetAccounted
    <2> QED BY <2>1 DEF NothingLost
  <1> QED BY <1>1, MaintenanceInvariant, PTL

\* A step that gives a command in a transaction its result ends that transaction.
LEMMA ResultEnds ==
  ASSUME MaintenanceInv, [Next]_vars, NEW p \in Procs, InTransaction(p), result'[p] # "none"
  PROVE  Ending(p)
  <1>0. LockInv
    BY DEF MaintenanceInv
  <1>1. result[p] = "none" /\ HoldsLock(p) /\ pc[p] \in {"commit", "rollback"}
    BY <1>0 DEF LockInv, PointsKept, PointsOf, InTransaction, HoldsLock
  <1>2. ~Tick /\ ~Publish /\ ~UNCHANGED vars
    BY <1>1 DEF Tick, Publish, vars
  <1>3. ASSUME NEW q \in Procs, InstallStep(q) \/ UpdateStep(q) \/ Crash(q)
        PROVE  q = p
    <2>1. ASSUME q # p
          PROVE  result'[p] = result[p]
      <3>1. CASE UNCHANGED result
        BY <3>1
      <3>2. CASE \E r : result' = [result EXCEPT ![q] = r]
        BY <2>1, <3>2 DEF LockInv, MaintenanceTypeOK, ProcessesOK
      <3>3. UNCHANGED result \/ \E r : result' = [result EXCEPT ![q] = r]
        <4> USE DEF Finish, Continue, StartsRollback, TakesLock
        <4>1. CASE Crash(q)
          BY <4>1 DEF Crash
        <4>2. CASE InstallStep(q)
          BY <4>2 DEF InstallStep, BundleRejected, InstallRefused, InstallLocks, InstallBusy,
                      Inspect, InspectFails, BackUp, Place, write_install_receipt, CommitFails,
                      RemoveNew, RestoreOld, restore_receipt
        <4>3. CASE UpdateStep(q)
          BY <4>3 DEF UpdateStep, UpgradeStarts, UpgradeCandidate, UpgradeStops, UpgradeLocks,
                      UpgradeBusy, UpgradeRechecks, UpgradeReplaces, ReplaceFails, WorkerStarts,
                      WorkerLocks, WorkerBusy, Reserve, ReserveStops, WorkerChecks,
                      WorkerCheckFails, WorkerReplaces, WorkerSaves, WorkerSaveFails
        <4> QED BY <1>3, <4>1, <4>2, <4>3
      <3> QED BY <3>1, <3>2, <3>3
    <2> QED BY <1>1, <2>1
  <1>4. InstallStep(p) \/ UpdateStep(p) \/ Crash(p)
    BY <1>2, <1>3 DEF Next
  <1>5. ~UpdateStep(p)
    BY <1>1 DEF UpdateStep, UpgradeStarts, UpgradeCandidate, UpgradeStops, UpgradeLocks, Runs,
                UpgradeBusy, UpgradeRechecks, UpgradeReplaces, ReplaceFails, WorkerStarts,
                WorkerLocks, WorkerBusy, Reserve, ReserveStops, WorkerChecks,
                WorkerCheckFails, WorkerReplaces, WorkerSaves, WorkerSaveFails
  <1>6. ~Crash(p)
    BY <1>1 DEF Crash
  <1>7. ~BackUp(p) /\ ~Place(p) /\ ~CommitFails(p) /\ ~RemoveNew(p) /\ ~RestoreOld(p)
    BY <1>1 DEF BackUp, Place, CommitFails, StartsRollback, Continue, RemoveNew, RestoreOld
  <1>8. write_install_receipt(p) \/ restore_receipt(p)
    BY <1>1, <1>4, <1>5, <1>6, <1>7
       DEF InstallStep, BundleRejected, InstallRefused, InstallLocks, InstallBusy, Inspect,
           InspectFails
  <1> QED BY <1>8 DEF Ending

\* The two binaries and the receipt are one unit for whatever the installer observes (install,
\* commit_targets, rollback_targets): success is its own pair under its receipt, a failure it
\* could roll back is what it found.
THEOREM InstallsAreAllOrNothing == Spec => AllOrNothing
  <1> DEFINE Unit(p) ==
        CASE result'[p] = "installed" ->
               /\ \A n \in Names : bin'[n] = [version |-> bundle[p], by |-> p]
               /\ receipt' = [place |-> "here",
                              id |-> IF tx[p].prior = NoFile THEN p ELSE tx[p].prior.id]
          [] result'[p] = "error" -> bin' = tx[p].found /\ receipt' = tx[p].prior
          [] OTHER -> result'[p] = "rollback_failed"
  <1>1. ASSUME MaintenanceInv, [Next]_vars, NEW p \in Procs, InTransaction(p), result'[p] # "none"
        PROVE  Unit(p)
    <2>1. Ending(p) /\ LockInv
      BY <1>1, ResultEnds DEF MaintenanceInv
    <2>2. Opened(p) /\ LeftAccounted(p) /\ \A n \in Names : TargetAccounted(p, n)
      BY <1>1, InTheMiddle
    <2>3. /\ result \in [Procs -> Results] /\ tx[p].placed \subseteq Names
          /\ bin \in [Names -> File \cup {NoFile}]
          /\ tx[p].found \in [Names -> File \cup {NoFile}]
      BY <2>1, TransactionTyped, DiskTyped DEF LockInv, MaintenanceTypeOK, ProcessesOK
    <2>4. CASE write_install_receipt(p)
      <3>1. /\ result'[p] = "installed" /\ UNCHANGED bin /\ receipt' = Committed(p)
            /\ tx[p].placed = Names
        BY <2>3, <2>4 DEF write_install_receipt, Finish, ToPlace
      <3>2. \A n \in Names : bin'[n] = [version |-> bundle[p], by |-> p]
        BY <2>2, <3>1 DEF TargetAccounted
      <3> QED BY <2>2, <3>1, <3>2 DEF Opened, Committed
    <2>5. CASE restore_receipt(p)
      <3>1. /\ pc[p] = "rollback" /\ tx[p].left = {} /\ UNCHANGED bin
            /\ \/ result'[p] = "rollback_failed"
               \/ result'[p] = "error" /\ ~tx[p].errors /\ receipt' = tx[p].prior
        BY <2>3, <2>5 DEF restore_receipt, RollsBack, Finish
      <3>2. CASE ~tx[p].errors
        <4>1. tx[p].placed = {} /\ \A n \in Names : tx[p].backup[n] = NoFile
          BY <2>2, <3>1, <3>2 DEF LeftAccounted
        <4>2. \A n \in Names : bin[n] = tx[p].found[n]
          BY <2>2, <3>2, <4>1 DEF TargetAccounted
        <4>3. bin = tx[p].found
          BY <2>3, <4>2
        <4> QED BY <3>1, <4>3
      <3>3. CASE tx[p].errors
        BY <3>1, <3>3
      <3> QED BY <3>2, <3>3
    <2> QED BY <2>1, <2>4, <2>5 DEF Ending
  <1>2. MaintenanceInv /\ [Next]_vars =>
          [\A p \in Procs : InTransaction(p) /\ result'[p] # "none" => Unit(p)]_vars
    BY <1>1
  <1> QED BY <1>2, MaintenanceInvariant, PTL DEF Spec, AllOrNothing

\* What the operator put at the prefix is renamed, replaced or removed only if a receipt owns
\* this prefix's crawlson, or owned it when the transaction that does so began
\* (inspect_ownership, installation_ownership).
THEOREM OperatorsFilesAreKept == Spec => OperatorFilesKept
  <1> DEFINE Owned == \/ receipt_manages_binary
                      \/ \E p \in Procs : InTransaction(p) /\ tx[p].prior # NoFile
                                            /\ tx[p].prior.place = "here"
  <1>1. ASSUME MaintenanceInv, [Next]_vars, NEW n \in Names, bin[n] # NoFile,
               bin[n].by = Operator, bin'[n] # bin[n]
        PROVE  Owned
    <2>1. PICK p \in Procs : BinSteps(p)
      BY <1>1, BinChanges
    <2>2. LockInv
      BY <1>1 DEF MaintenanceInv
    <2>3. CASE Replacing(p)
      <3>1. pc[p] = "replace"
        BY <2>3 DEF Replacing, UpgradeReplaces, WorkerReplaces
      <3> QED BY <1>1, <3>1, ReadyToReplace DEF StillOwner
    <2>4. CASE ~Replacing(p)
      <3>1. InTransaction(p)
        BY <2>1, <2>4 DEF BinSteps, BackUp, Place, RemoveNew, RestoreOld, Commits, RollsBack,
                          InTransaction
      <3>2. Opened(p) /\ LeftAccounted(p) /\ TargetAccounted(p, n)
        BY <1>1, <3>1, InTheMiddle
      <3>3. Operator # p
        BY StandaloneAssumption
      <3>4. bin \in [Names -> File \cup {NoFile}]
        BY <2>2, DiskTyped
      <3>5. tx[p].found[n] # NoFile
        <4>1. CASE BackUp(p)
          <5> DEFINE k == First(ToBackUp(p))
          <5>1. k \in ToBackUp(p) /\ bin' = [bin EXCEPT ![k] = NoFile]
            BY <2>2, <4>1, BackUpMoves
          <5> HIDE DEF k
          <5> QED BY <1>1, <3>4, <5>1 DEF ToBackUp
        <4>2. CASE Place(p)
          <5> DEFINE k == First(ToPlace(p))
          <5>1. /\ k \in ToPlace(p) /\ k \in Names /\ pc[p] = "commit"
                /\ bin' = [bin EXCEPT ![k] = [version |-> bundle[p], by |-> p]]
            BY <2>2, <4>2, PlaceMoves DEF Place, Commits
          <5> HIDE DEF k
          <5>2. k = n /\ n \notin tx[p].placed /\ ~tx[p].errors
            BY <1>1, <3>2, <3>4, <5>1 DEF ToPlace, LeftAccounted
          <5> QED BY <1>1, <3>2, <5>2 DEF TargetAccounted
        <4>3. CASE RemoveNew(p)
          <5> DEFINE k == Last(tx[p].left)
          <5>1. PICK removed \in BOOLEAN :
                  /\ k \in tx[p].placed
                  /\ bin' = IF removed THEN [bin EXCEPT ![k] = NoFile] ELSE bin
            BY <4>3 DEF RemoveNew
          <5> HIDE DEF k
          <5>2. k = n
            BY <1>1, <3>4, <5>1
          <5> QED BY <1>1, <3>2, <3>3, <5>1, <5>2 DEF TargetAccounted
        <4>4. CASE RestoreOld(p)
          <5> DEFINE k == Last(tx[p].left)
          <5>1. /\ k \in tx[p].left /\ k \notin tx[p].placed /\ pc[p] = "rollback"
                /\ UNCHANGED bin \/ bin' = [bin EXCEPT ![k] = tx[p].backup[k]]
            BY <2>2, <4>4, FirstAndLast, TransactionTyped DEF RestoreOld, RollsBack
          <5> HIDE DEF k
          <5>2. k = n
            BY <1>1, <3>4, <5>1
          <5>3. tx[p].backup[n] # NoFile
            BY <3>2, <5>1, <5>2 DEF LeftAccounted
          <5> QED BY <3>2, <5>3 DEF TargetAccounted
        <4> QED BY <2>1, <2>4, <4>1, <4>2, <4>3, <4>4 DEF BinSteps
      <3>6. tx[p].prior # NoFile /\ tx[p].prior.place = "here"
        BY <3>2, <3>5 DEF Opened, NoBackups
      <3> QED BY <3>1, <3>6
    <2> QED BY <2>3, <2>4
  <1>2. MaintenanceInv /\ [Next]_vars =>
          [\A n \in Names : bin[n] # NoFile /\ bin[n].by = Operator /\ bin'[n] # bin[n] => Owned]_vars
    BY <1>1
  <1> QED BY <1>2, MaintenanceInvariant, PTL DEF Spec, OperatorFilesKept

\* An installation contacts the release service at most once in the shorter interval, and once
\* a check is on record at most once in the longer, whatever number of workers is started and
\* wherever they die (periodic_worker).
THEOREM ChecksAreSpaced == Spec => ChecksSpaced
  <1>1. ASSUME MaintenanceInv, NEW p \in Procs, WorkerChecks(p) \/ WorkerCheckFails(p),
               mem[p].state.id = contact.id
        PROVE  mem[p].started - contact.at >= (IF contact.saved THEN Week ELSE Day)
    <2>1. pc[p] = "check" /\ command[p] = "worker"
      BY <1>1 DEF WorkerChecks, WorkerCheckFails
    <2> QED BY <1>1, <2>1 DEF MaintenanceInv, ProcessInv, CheckInv, Interval
  <1>2. MaintenanceInv /\ [Next]_vars =>
          [\A p \in Procs :
             (WorkerChecks(p) \/ WorkerCheckFails(p)) /\ mem[p].state.id = contact.id =>
               mem[p].started - contact.at >= (IF contact.saved THEN Week ELSE Day)]_vars
    BY <1>1
  <1> QED BY <1>2, MaintenanceInvariant, PTL DEF Spec, ChecksSpaced
-----------------------------------------------------------------------------
(* What it means for an update *)

\* Where the platform finds a running executable by its path, only manual upgrades update.
UpdatesAreRechecked ==
  \A cast \in Casts \cap ByPath : \A p \in Procs : cast[p] # "worker"

\* A replacement finds what it checked, in nobody's transaction, and no newer.
LEMMA ReplacedIsChecked ==
  ASSUME UpdatesAreRechecked, MaintenanceInv, [Next]_vars, NEW p \in Procs, ReplacedBy(p)
  PROVE  /\ lock = p /\ \A q \in Procs : ~InTransaction(q)
         /\ receipt_manages_binary /\ receipt.id = mem[p].owner
         /\ bin["crawlson"].version = mem[p].exe.version
         /\ bin["crawlson"].version <= bin'["crawlson"].version
  <1>1. /\ LockInv /\ HoldsLock(p) /\ StillOwner(p) /\ mem[p].exe \in File
        /\ mem[p].candidate \in Versions /\ mem[p].candidate > mem[p].exe.version
        /\ ~ExeByPath \/ command[p] = "upgrade" => bin["crawlson"].version = mem[p].exe.version
    BY ReadyToReplace DEF ReplacedBy
  <1>2. PICK q \in Procs : BinSteps(q)
    BY BinChanges DEF ReplacedBy
  <1>3. q = p
    BY <1>1, <1>2, BinStepsHoldLock, OnlyOneHolds
  <1>4. Replacing(p)
    BY <1>2, <1>3 DEF BinSteps, ReplacedBy, BackUp, Place, RemoveNew, RestoreOld, Commits, RollsBack
  <1>5. bin' = [bin EXCEPT !["crawlson"] = [version |-> mem[p].candidate, by |-> p]]
    BY <1>4 DEF Replacing, UpgradeReplaces, WorkerReplaces, Replaces
  <1>6. bin'["crawlson"].version = mem[p].candidate
    BY <1>1, <1>5, DiskTyped DEF Names
  <1>7. ~ExeByPath \/ command[p] = "upgrade"
    <2>1. command \in Casts /\ command[p] \in {"upgrade", "worker"}
      BY <1>1 DEF LockInv, PointsKept, PointsOf, ReplacedBy
    <2> QED BY <2>1 DEF UpdatesAreRechecked, ExeByPath
  <1>8. lock = p
    BY <1>1 DEF LockInv, LockKept
  <1>9. ASSUME NEW k \in Procs
        PROVE  ~InTransaction(k)
    <2>1. CASE k = p
      BY <2>1 DEF ReplacedBy, InTransaction
    <2>2. CASE k # p
      BY <1>1, <2>2, OnlyOneHolds DEF HoldsLock, InTransaction
    <2> QED BY <2>1, <2>2
  <1>10. mem[p].exe.version \in Nat /\ mem[p].candidate \in Nat
    BY <1>1, StandaloneAssumption DEF File
  <1> QED BY <1>1, <1>6, <1>7, <1>8, <1>9, <1>10 DEF StillOwner

\* An update replaces exactly what it checked, under the lock and in nobody's transaction,
\* wherever the platform finds a running executable by its file or only manual upgrades update
\* (run_manual, periodic_worker, installation_ownership); a run refutes the other case.
THEOREM UpdatesOwnTheirTarget == UpdatesAreRechecked /\ Spec => UpdateOwnsTarget
  <1> SUFFICES ASSUME UpdatesAreRechecked
               PROVE  Spec => UpdateOwnsTarget
    OBVIOUS
  <1>1. MaintenanceInv /\ [Next]_vars =>
          [\A p \in Procs : ReplacedBy(p) =>
             /\ lock = p /\ \A q \in Procs : ~InTransaction(q)
             /\ receipt_manages_binary /\ receipt.id = mem[p].owner
             /\ bin["crawlson"].version = mem[p].exe.version]_vars
    BY ReplacedIsChecked
  <1> QED BY <1>1, MaintenanceInvariant, PTL DEF Spec, UpdateOwnsTarget

\* An update never replaces the installed binary by an older one, under the same condition
\* (validate_candidate_version, run_manual, periodic_worker).
THEOREM UpdatesNeverDowngrade == UpdatesAreRechecked /\ Spec => NeverDowngraded
  <1> SUFFICES ASSUME UpdatesAreRechecked
               PROVE  Spec => NeverDowngraded
    OBVIOUS
  <1>1. MaintenanceInv /\ [Next]_vars =>
          [\A p \in Procs : ReplacedBy(p) =>
             bin["crawlson"].version <= bin'["crawlson"].version]_vars
    BY ReplacedIsChecked
  <1> QED BY <1>1, MaintenanceInvariant, PTL DEF Spec, NeverDowngraded
=============================================================================
