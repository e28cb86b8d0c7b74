------------------------ MODULE MaintenanceInvariants -------------------------
(***************************************************************************)
(* The inductive invariant behind the theorems about installers, upgrades  *)
(* and workers: what is true between any two of their steps.               *)
(***************************************************************************)
EXTENDS Maintenance

\* The points a process gets to only with the lock.
HoldsLock(p) ==
  \/ pc[p] \in {"inspect", "commit", "rollback", "recheck", "replace", "reserve", "save"}
  \/ pc[p] = "check" /\ command[p] = "worker"

\* Whoever has got past the lock has it still.
LockKept == \A p \in Procs : HoldsLock(p) => lock = p

\* Each command keeps to its own points, and has no result before its end.
PointsOf(p) ==
  /\ pc[p] \in {"inspect", "commit", "rollback"} => command[p] = "install"
  /\ pc[p] \in {"check", "lock", "replace"} => command[p] \in {"upgrade", "worker"}
  /\ pc[p] = "recheck" => command[p] = "upgrade"
  /\ pc[p] \in {"reserve", "save"} => command[p] = "worker"
  /\ pc[p] # "done" => result[p] = "none"

PointsKept == command \in Casts /\ \A p \in Procs : PointsOf(p)

LockInv == MaintenanceTypeOK /\ LockKept /\ PointsKept
-----------------------------------------------------------------------------
(* A transaction *)

\* What a transaction began with: no files without a receipt, and no receipt but this prefix's.
Opened(p) ==
  /\ tx[p].prior = NoFile => tx[p].found = NoBackups
  /\ tx[p].prior # NoFile => tx[p].prior.place = "here"
  /\ tx[p].id = IF tx[p].prior = NoFile THEN p ELSE tx[p].prior.id

\* The receipt is the prior one or, once the commit has failed at writing it, the new one.
ReceiptAccounted(p) ==
  /\ receipt \in {tx[p].prior, Committed(p)}
  /\ pc[p] = "commit" => receipt = tx[p].prior

\* Where the file of each target is.
TargetAccounted(p, n) ==
  /\ tx[p].backup[n] \in {NoFile, tx[p].found[n]}
  /\ n \in tx[p].placed =>
       bin[n] = [version |-> bundle[p], by |-> p] /\ tx[p].backup[n] = tx[p].found[n]
  /\ n \notin tx[p].placed /\ ~tx[p].errors =>
       bin[n] = IF tx[p].backup[n] # NoFile THEN NoFile ELSE tx[p].found[n]

\* The targets a rollback has still to do: all that is not yet as it was, unless it failed at one.
LeftAccounted(p) ==
  LET undone == tx[p].placed \cup {n \in Names : tx[p].backup[n] # NoFile} IN
  /\ pc[p] = "commit" => ~tx[p].errors
  /\ pc[p] = "rollback" => tx[p].left \subseteq undone /\ (~tx[p].errors => tx[p].left = undone)

\* What is known of p's transaction while it is under way.
TransactionInv(p) ==
  InTransaction(p) =>
    /\ Opened(p) /\ ReceiptAccounted(p) /\ LeftAccounted(p)
    /\ \A n \in Names : TargetAccounted(p, n)
-----------------------------------------------------------------------------
(* An update *)

\* The installation an updater took for its own is there, unchanged.
StillOwner(p) == receipt_manages_binary /\ receipt.id = mem[p].owner

UpdaterInv(p) ==
  /\ pc[p] \in {"check", "lock", "recheck", "replace", "reserve", "save"} => mem[p].exe \in File
  /\ pc[p] \in {"lock", "recheck"} /\ command[p] = "upgrade" =>
       /\ mem[p].owner # NoOne
       /\ validate_candidate_version(mem[p].exe.version, mem[p].candidate)
  /\ pc[p] = "check" /\ command[p] = "worker" /\ mem[p].owner # NoOne =>
       StillOwner(p) /\ (ExeByPath \/ bin["crawlson"] = mem[p].exe)
  /\ pc[p] = "replace" =>
       /\ StillOwner(p)
       /\ validate_candidate_version(mem[p].exe.version, mem[p].candidate)
       /\ ~ExeByPath \/ command[p] = "upgrade" => bin["crawlson"].version = mem[p].exe.version
-----------------------------------------------------------------------------
(* The intervals between checks *)

Interval == IF contact.saved THEN Week ELSE Day

\* A worker about to check has put off the next attempt, and comes after the last contact.
CheckInv(p) ==
  pc[p] = "check" /\ command[p] = "worker" =>
    /\ state = mem[p].state /\ state # NoFile
    /\ state.next >= mem[p].started + Day
    /\ state.id = contact.id => mem[p].started - contact.at >= Interval

\* A worker that has checked is the last that has.
SaveInv(p) ==
  pc[p] \in {"replace", "save"} /\ command[p] = "worker" =>
    /\ mem[p].state # NoFile /\ mem[p].state.id = contact.id /\ mem[p].started = contact.at
    /\ mem[p].state.next >= mem[p].started + Week

\* This installation has id as its own for good.
Settled(id) ==
  /\ receipt # NoFile /\ receipt.place = "here" /\ receipt.id = id
  /\ \A p \in Procs : InTransaction(p) => tx[p].prior # NoFile /\ tx[p].prior.id = id

\* The next check is due an interval after the last contact; an installation that has lost its
\* place in the update state has lost it to one that is there to stay.
ContactInv ==
  /\ contact \in [id : Procs \cup {Shipped, NoOne}, at : 0 .. MaxTime, saved : BOOLEAN]
  /\ state = NoFile => contact.id = NoOne
  /\ state # NoFile /\ state.id = contact.id => state.next >= contact.at + Interval
  /\ state # NoFile /\ contact.id \notin {NoOne, state.id} => Settled(state.id)

ProcessInv(p) == TransactionInv(p) /\ UpdaterInv(p) /\ CheckInv(p) /\ SaveInv(p)

MaintenanceInv == LockInv /\ ContactInv /\ \A p \in Procs : ProcessInv(p)
=============================================================================
