------------------------------- MODULE Install --------------------------------
(***************************************************************************)
(* crawlson install (src/install.rs).  Each rename and removal is an       *)
(* action, because the process can die between any two of them.            *)
(***************************************************************************)
EXTENDS Standalone

\* An installer reads and writes nothing of an updater's.
Alone == UNCHANGED <<world, state, contact>>

\* Not the bundle of this installer's version and target, or not as its manifest has it.
BundleRejected(p) ==
  /\ pc[p] = "idle" /\ command[p] = "install"
  /\ Finish(p, "error")
  /\ Alone /\ UNCHANGED <<bin, receipt>>

\* The installer runs from elsewhere, the prefix is a package manager's, the paths are not
\* absolute, or the lock cannot be opened.
InstallRefused(p) ==
  /\ pc[p] = "idle" /\ command[p] = "install"
  /\ \E r \in {"blocked", "error"} : Finish(p, r)
  /\ Alone /\ UNCHANGED <<bin, receipt>>

InstallLocks(p) ==
  /\ pc[p] = "idle" /\ command[p] = "install"
  /\ TakesLock(p, "inspect")
  /\ Alone /\ UNCHANGED <<bin, receipt, mem, tx>>

InstallBusy(p) ==
  /\ pc[p] = "idle" /\ command[p] = "install"
  /\ lock # NoOne
  /\ Finish(p, "blocked")
  /\ Alone /\ UNCHANGED <<bin, receipt>>

\* Mutant: files without a receipt are taken for the installer's.
OwnableUnreceipted == receipt = NoFile \/ receipt_manages_binary

\* inspect_ownership: the exact receipt of this prefix, or nothing at all.
Ownable ==
  IF receipt = NoFile THEN \A n \in Names : bin[n] = NoFile
                      ELSE receipt_manages_binary

Inspect(p) ==
  /\ pc[p] = "inspect" /\ Ownable
  /\ tx' = [tx EXCEPT ![p] =
       [NoTransaction EXCEPT !.prior = receipt,
                             !.id = IF receipt = NoFile THEN p ELSE receipt.id,
                             !.found = bin]]
  /\ Continue(p, "commit")
  /\ Alone /\ UNCHANGED <<bin, receipt, lock, mem>>

\* Not a regular file, not the installer's to replace, or not to be staged.
InspectFails(p) ==
  /\ pc[p] = "inspect"
  /\ \E r \in {"blocked", "error"} : Finish(p, r)
  /\ Alone /\ UNCHANGED <<bin, receipt>>
-----------------------------------------------------------------------------
(* commit_targets *)

ToBackUp(p) == {n \in Names : tx[p].found[n] # NoFile /\ tx[p].backup[n] = NoFile}

\* Mutant: the new binaries do not wait for the backups.
ToPlaceAtOnce(p) == Names \ tx[p].placed

ToPlace(p) == IF ToBackUp(p) = {} THEN Names \ tx[p].placed ELSE {}

Commits(p) == pc[p] = "commit" /\ Alone

BackUp(p) ==
  /\ Commits(p) /\ ToBackUp(p) # {}
  /\ LET n == First(ToBackUp(p)) IN
     /\ tx' = [tx EXCEPT ![p].backup[n] = bin[n]]
     /\ bin' = [bin EXCEPT ![n] = NoFile]
  /\ UNCHANGED <<receipt, lock, pc, result, mem>>

Place(p) ==
  /\ Commits(p) /\ ToPlace(p) # {}
  /\ LET n == First(ToPlace(p)) IN
     /\ tx' = [tx EXCEPT ![p].placed = @ \cup {n}]
     /\ bin' = [bin EXCEPT ![n] = [version |-> bundle[p], by |-> p]]
  /\ UNCHANGED <<receipt, lock, pc, result, mem>>

Committed(p) == [place |-> "here", id |-> tx[p].id]

write_install_receipt(p) ==
  /\ Commits(p) /\ ToBackUp(p) = {} /\ ToPlace(p) = {}
  /\ receipt' = Committed(p)
  /\ Finish(p, "installed")
  /\ UNCHANGED bin

\* Mutant: a failed commit leaves the targets as they are.
AbandonsCommit(p) ==
  /\ Continue(p, "rollback") /\ UNCHANGED <<lock, mem>>
  /\ tx' = [tx EXCEPT ![p].left = tx[p].placed]

\* What there is to roll back, of the targets.
StartsRollback(p) ==
  /\ Continue(p, "rollback") /\ UNCHANGED <<lock, mem>>
  /\ tx' = [tx EXCEPT ![p].left = tx[p].placed \cup {n \in Names : tx[p].backup[n] # NoFile}]

\* A rename fails; or the receipt cannot be written, whether or not the attempt left a
\* receipt behind and whether or not the prior one could be restored at once.
CommitFails(p) ==
  /\ Commits(p)
  /\ \/ UNCHANGED receipt
     \/ ToBackUp(p) = {} /\ ToPlace(p) = {} /\ receipt' = Committed(p)
  /\ StartsRollback(p)
  /\ UNCHANGED bin
-----------------------------------------------------------------------------
(* rollback_targets: the targets in reverse, going on past each failure *)

RollsBack(p) == pc[p] = "rollback" /\ Alone

\* The new binary is removed; there may be an old one to restore.
RemoveNew(p) ==
  /\ RollsBack(p) /\ tx[p].left # {}
  /\ LET n == Last(tx[p].left) IN
     /\ n \in tx[p].placed
     /\ \E removed \in BOOLEAN :
          /\ bin' = IF removed THEN [bin EXCEPT ![n] = NoFile] ELSE bin
          /\ tx' = [tx EXCEPT ![p].placed = @ \ {n},
                              ![p].left = IF tx[p].backup[n] = NoFile THEN @ \ {n} ELSE @,
                              ![p].errors = @ \/ ~removed]
  /\ UNCHANGED <<receipt, lock, pc, result, mem>>

RestoreOld(p) ==
  /\ RollsBack(p) /\ tx[p].left # {}
  /\ LET n == Last(tx[p].left) IN
     /\ n \notin tx[p].placed
     /\ \/ /\ bin' = [bin EXCEPT ![n] = tx[p].backup[n]]
           /\ tx' = [tx EXCEPT ![p].backup[n] = NoFile, ![p].left = @ \ {n}]
        \/ /\ tx' = [tx EXCEPT ![p].left = @ \ {n}, ![p].errors = TRUE]
           /\ UNCHANGED bin
  /\ UNCHANGED <<receipt, lock, pc, result, mem>>

restore_receipt(p) ==
  /\ RollsBack(p) /\ tx[p].left = {}
  /\ \/ /\ receipt' = tx[p].prior
        /\ Finish(p, IF tx[p].errors THEN "rollback_failed" ELSE "error")
     \/ /\ UNCHANGED receipt
        /\ Finish(p, "rollback_failed")
  /\ UNCHANGED bin

InstallStep(p) ==
  \/ BundleRejected(p) \/ InstallRefused(p) \/ InstallLocks(p) \/ InstallBusy(p)
  \/ Inspect(p) \/ InspectFails(p)
  \/ BackUp(p) \/ Place(p) \/ write_install_receipt(p) \/ CommitFails(p)
  \/ RemoveNew(p) \/ RestoreOld(p) \/ restore_receipt(p)
=============================================================================
