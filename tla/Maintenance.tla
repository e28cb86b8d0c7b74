----------------------------- MODULE Maintenance ------------------------------
(***************************************************************************)
(* Installers, manual upgrades and periodic workers over one standalone    *)
(* installation.  Nobody waits: a process that finds the lock taken ends.  *)
(* Any process can die between any two of its steps; what it wrote stays,  *)
(* its lock goes, and its transaction directory is left behind.            *)
(***************************************************************************)
EXTENDS Install, Update

CONSTANTS
  Installations,  \* the prefixes, receipts and update states to begin with
  Casts,          \* which commands the processes run
  Bundles         \* the versions installers bring

ASSUME MaintenanceAssumption ==
  /\ Installations \subseteq [bin : [Names -> File \cup {NoFile}],
                              receipt : Receipt \cup {NoFile}]
  /\ Casts \subseteq [Procs -> Commands]
  /\ Bundles \subseteq [Procs -> Versions]

NoContact == [id |-> NoOne, at |-> 0, saved |-> FALSE]

Init ==
  /\ \E i \in Installations : bin = i.bin /\ receipt = i.receipt
  /\ command \in Casts /\ bundle \in Bundles
  /\ state = NoFile /\ lock = NoOne /\ now = 0
  /\ release = 0
  /\ pc = [p \in Procs |-> "idle"] /\ result = [p \in Procs |-> "none"]
  /\ mem = [p \in Procs |-> NoMemory]
  /\ tx = [p \in Procs |-> NoTransaction]
  /\ contact = NoContact

Crash(p) ==
  /\ pc[p] \notin {"idle", "done", "crashed"}
  /\ Leave(p, "crashed")
  /\ UNCHANGED <<disk, world, result, contact>>

Tick ==
  /\ now < MaxTime
  /\ now' = now + 1
  /\ UNCHANGED <<disk, lock, release, command, bundle, pc, result, mem, tx, contact>>

Publish ==
  /\ release' \in {v \in Versions : v > release}
  /\ UNCHANGED <<disk, lock, now, command, bundle, pc, result, mem, tx, contact>>

Next ==
  \/ \E p \in Procs : InstallStep(p) \/ UpdateStep(p) \/ Crash(p)
  \/ Tick \/ Publish

Spec == Init /\ [][Next]_vars
-----------------------------------------------------------------------------
(* Properties *)

ControlPoints == {"idle", "done", "crashed", "inspect", "commit", "rollback",
                  "check", "lock", "recheck", "replace", "reserve", "save"}

Results == {"none", "installed", "upgraded", "checked", "quiet", "blocked", "error",
            "rollback_failed"}

\* The type invariant.
DiskOK ==
  /\ bin \in [Names -> File \cup {NoFile}]
  /\ receipt \in Receipt \cup {NoFile}
  /\ state \in UpdateState \cup {NoFile}
  /\ lock \in Procs \cup {NoOne}
  /\ now \in 0 .. MaxTime /\ release \in Versions \cup {0}

ProcessesOK ==
  /\ command \in [Procs -> Commands] /\ bundle \in [Procs -> Versions]
  /\ pc \in [Procs -> ControlPoints] /\ result \in [Procs -> Results]
  /\ mem \in [Procs -> Memory]
  /\ tx \in [Procs -> Transaction]

MaintenanceTypeOK == DiskOK /\ ProcessesOK

\* p's transaction is under way.
InTransaction(p) == pc[p] \in {"commit", "rollback"}

\* p replaces the installed binary by the candidate it verified.
ReplacedBy(p) == pc[p] = "replace" /\ bin' # bin

\* The two binaries and the receipt are one unit for whatever the installer observes: it
\* reports success only with its own pair and its receipt in place, and a failure it
\* could roll back leaves binaries and receipt as the transaction found them (install,
\* commit_targets, rollback_targets).
AllOrNothing ==
  [][\A p \in Procs : InTransaction(p) /\ result'[p] # "none" =>
       CASE result'[p] = "installed" ->
              /\ \A n \in Names : bin'[n] = [version |-> bundle[p], by |-> p]
              /\ receipt' = [place |-> "here",
                             id |-> IF tx[p].prior = NoFile THEN p ELSE tx[p].prior.id]
         [] result'[p] = "error" -> bin' = tx[p].found /\ receipt' = tx[p].prior
         [] OTHER -> result'[p] = "rollback_failed"]_vars

\* No binary is ever lost on the way: at every point of a transaction, where the installer
\* may be killed, each binary it found is at the prefix or in its backup, unless removing
\* or restoring one has failed (commit_targets, rollback_targets).
NothingLost ==
  \A p \in Procs : InTransaction(p) /\ ~tx[p].errors =>
    \A n \in Names : tx[p].found[n] \in {bin[n], tx[p].backup[n], NoFile}

\* A file no receipt accounts for is never touched: what the operator put at the prefix is
\* renamed, replaced or removed only if a receipt owns this prefix's crawlson
\* (inspect_ownership, and the ownership an update needs).
OperatorFilesKept ==
  [][\A n \in Names : bin[n] # NoFile /\ bin[n].by = Operator /\ bin'[n] # bin[n] =>
       \/ receipt_manages_binary
       \/ \E p \in Procs : InTransaction(p) /\ tx[p].prior # NoFile /\ tx[p].prior.place = "here"]_vars

\* An update replaces exactly what it checked: the file it replaces is one a receipt owns,
\* of the version its candidate was compared with, with no installation in the middle of
\* its transaction, and under the lock.
UpdateOwnsTarget ==
  [][\A p \in Procs : ReplacedBy(p) =>
       /\ lock = p /\ \A q \in Procs : ~InTransaction(q)
       /\ receipt_manages_binary /\ receipt.id = mem[p].owner
       /\ bin["crawlson"].version = mem[p].exe.version]_vars

\* README.md: downgrade cases fail closed.  An update never replaces the installed binary by
\* an older one, whatever was installed between its start and its replacement.
NeverDowngraded ==
  [][\A p \in Procs : ReplacedBy(p) =>
       bin["crawlson"].version <= bin'["crawlson"].version]_vars

\* An installation contacts the release service at most once in the shorter interval, and
\* once a check is on record at most once in the longer: whatever number of foreground
\* commands found a check due, and wherever a worker died or failed (Reserve before the check).
ChecksSpaced ==
  [][\A p \in Procs :
       (WorkerChecks(p) \/ WorkerCheckFails(p)) /\ mem[p].state.id = contact.id =>
         mem[p].started - contact.at >= (IF contact.saved THEN Week ELSE Day)]_vars

\* docs/architecture/release-v1.md: an abrupt kill can leave an incomplete pair; the
\* ownership checks then fail closed.  Nothing replaces a file of an incomplete pair, unless
\* it is the transaction that opened it.
IncompleteFailsClosed ==
  [][\A p \in Procs :
       ReplacedBy(p) \/ (pc[p] = "inspect" /\ pc'[p] = "commit") =>
         \/ \A n \in Names : bin[n] # NoFile
         \/ \A n \in Names : bin[n] = NoFile]_vars
=============================================================================
