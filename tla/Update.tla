------------------------------- MODULE Update ---------------------------------
(***************************************************************************)
(* crawlson upgrade and the periodic worker (src/update.rs), on a platform *)
(* with self-replacement.                                                  *)
(***************************************************************************)
EXTENDS Standalone

CONSTANT Policy  \* "auto" or "notify", the mode of a standalone installation

ASSUME PolicyAssumption == Policy \in {"auto", "notify"}

\* An updater opens no transaction and leaves the receipt alone.
Updates == UNCHANGED <<world, receipt>>

Remembers(p, memory) == mem' = [mem EXCEPT ![p] = memory]

\* A foreground command starts from the installed binary.
Runs(p) == pc[p] = "idle" /\ bin["crawlson"] # NoFile

validate_candidate_version(current, version) == version \in Versions /\ version > current
-----------------------------------------------------------------------------
(* run_manual *)

UpgradeStarts(p) ==
  /\ command[p] = "upgrade" /\ Runs(p)
  /\ Remembers(p, [NoMemory EXCEPT !.exe = bin["crawlson"],
                                    !.owner = IF receipt_manages_binary THEN receipt.id ELSE NoOne])
  /\ Continue(p, "check")
  /\ Updates /\ UNCHANGED <<bin, state, lock, tx, contact>>

UpgradeCandidate(p) ==
  /\ command[p] = "upgrade" /\ pc[p] = "check"
  /\ validate_candidate_version(mem[p].exe.version, release)
  /\ mem[p].owner # NoOne
  /\ Remembers(p, [mem[p] EXCEPT !.candidate = release])
  /\ Continue(p, "lock")
  /\ Updates /\ UNCHANGED <<disk, lock, tx, contact>>

\* Offline, no answer, nothing newer, check only, or not the updater's installation.
UpgradeStops(p) ==
  /\ command[p] = "upgrade" /\ pc[p] = "check"
  /\ \E r \in {"error", "blocked", "checked"} : Finish(p, r)
  /\ Updates /\ UNCHANGED <<disk, contact>>

UpgradeLocks(p) ==
  /\ command[p] = "upgrade" /\ pc[p] = "lock"
  /\ TakesLock(p, "recheck")
  /\ Updates /\ UNCHANGED <<disk, mem, tx, contact>>

UpgradeBusy(p) ==
  /\ command[p] = "upgrade" /\ pc[p] = "lock"
  /\ \E r \in {"error", "blocked"} : Finish(p, r) /\ (r = "blocked" => lock # NoOne)
  /\ Updates /\ UNCHANGED <<disk, contact>>

\* Mutant: what was read before the check is not read again under the lock.
StillOwnedAssumed(p) == mem[p].owner # NoOne

\* The same installation, still of the version that is running.
StillOwned(p) ==
  /\ installation_ownership(p) = mem[p].owner
  /\ bin["crawlson"].version = mem[p].exe.version

UpgradeRechecks(p) ==
  /\ command[p] = "upgrade" /\ pc[p] = "recheck"
  /\ \/ StillOwned(p) /\ Continue(p, "replace") /\ UNCHANGED <<lock, mem, tx>>
     \/ Finish(p, "blocked")
  /\ Updates /\ UNCHANGED <<disk, contact>>

\* The verified download takes the place of the running executable, in one rename.
Replaces(p) ==
  /\ ExeAtPrefix(p)
  /\ bin' = [bin EXCEPT !["crawlson"] = [version |-> mem[p].candidate, by |-> p]]

UpgradeReplaces(p) ==
  /\ command[p] = "upgrade" /\ pc[p] = "replace"
  /\ Replaces(p)
  /\ Finish(p, "upgraded")
  /\ Updates /\ UNCHANGED <<state, contact>>

\* Download, verification or replacement fails, in a manual upgrade or in a worker.
ReplaceFails(p) ==
  /\ pc[p] = "replace"
  /\ Finish(p, "error")
  /\ Updates /\ UNCHANGED <<disk, contact>>
-----------------------------------------------------------------------------
(* periodic_worker *)

Due(s, time) == s # NoFile => s.next <= time

\* A foreground command finds a check due, and spawns a worker, which reads the clock.
WorkerStarts(p) ==
  /\ command[p] = "worker" /\ Runs(p)
  /\ Due(state, now)
  /\ Remembers(p, [NoMemory EXCEPT !.exe = bin["crawlson"], !.started = now])
  /\ Continue(p, "lock")
  /\ Updates /\ UNCHANGED <<bin, state, lock, tx, contact>>

WorkerLocks(p) ==
  /\ command[p] = "worker" /\ pc[p] = "lock"
  /\ TakesLock(p, "reserve")
  /\ Updates /\ UNCHANGED <<disk, mem, tx, contact>>

WorkerBusy(p) ==
  /\ command[p] = "worker" /\ pc[p] = "lock"
  /\ Finish(p, "quiet")
  /\ Updates /\ UNCHANGED <<disk, contact>>

\* Mutant: the state of an unmanaged binary is left without an id of its own.
OwnStateEmpty(p, id) ==
  IF state # NoFile /\ id \in {NoOne, state.id} THEN state ELSE FreshState(id)

\* The state of another installation is not this one's.
OwnState(p, id) ==
  IF state # NoFile /\ id \in {NoOne, state.id} THEN state
  ELSE FreshState(IF id = NoOne THEN p ELSE id)

\* Mutant: the check is made before the next attempt is put off.
ReserveLater(p) ==
  /\ pc[p] = "reserve"
  /\ LET id == installation_ownership(p)
         s == OwnState(p, id)
     IN Due(s, mem[p].started) /\ Remembers(p, [mem[p] EXCEPT !.owner = id, !.state = s])
  /\ Continue(p, "check")
  /\ Updates /\ UNCHANGED <<disk, lock, tx, contact>>

\* The next attempt is put off on disk before anything is asked of the network.
Reserve(p) ==
  /\ pc[p] = "reserve"
  /\ LET id == installation_ownership(p)
         s == OwnState(p, id)
     IN /\ Due(s, mem[p].started)
        /\ \E j \in Jitter : state' = [s EXCEPT !.next = mem[p].started + Day + j]
        /\ Remembers(p, [mem[p] EXCEPT !.owner = id, !.state = state'])
  /\ Continue(p, "check")
  /\ Updates /\ UNCHANGED <<bin, lock, tx, contact>>

\* The check is no longer due, or the state cannot be written.
ReserveStops(p) ==
  /\ pc[p] = "reserve"
  /\ Finish(p, "quiet")
  /\ Updates /\ UNCHANGED <<disk, contact>>

Contacts(p) == contact' = [id |-> mem[p].state.id, at |-> mem[p].started, saved |-> FALSE]

\* An automatic update stays on its line, and a week from the last one.
MayInstall(p) ==
  LET m == mem[p] IN
  /\ Policy = "auto" /\ m.owner # NoOne
  /\ validate_candidate_version(m.exe.version, release)
  /\ Line[release] = Line[m.exe.version]
  /\ m.state.installed = -1 \/ m.started - m.state.installed >= Week

WorkerChecks(p) ==
  /\ command[p] = "worker" /\ pc[p] = "check"
  /\ Contacts(p)
  /\ \E j \in Jitter :
       Remembers(p, [mem[p] EXCEPT !.state.next = mem[p].started + Week + j,
                                   !.candidate = release])
  /\ Continue(p, IF MayInstall(p) THEN "replace" ELSE "save")
  /\ Updates /\ UNCHANGED <<disk, lock, tx>>

\* The reserved attempt stands, with or without its failure count.
WorkerCheckFails(p) ==
  /\ command[p] = "worker" /\ pc[p] = "check"
  /\ Contacts(p)
  /\ Finish(p, "error")
  /\ Updates /\ UNCHANGED disk

WorkerReplaces(p) ==
  /\ command[p] = "worker" /\ pc[p] = "replace"
  /\ Replaces(p)
  /\ Remembers(p, [mem[p] EXCEPT !.state.installed = mem[p].started])
  /\ Continue(p, "save")
  /\ Updates /\ UNCHANGED <<state, lock, tx, contact>>

WorkerSaves(p) ==
  /\ pc[p] = "save"
  /\ state' = mem[p].state
  /\ contact' = [contact EXCEPT !.saved = TRUE]
  /\ Finish(p, "checked")
  /\ Updates /\ UNCHANGED bin

WorkerSaveFails(p) ==
  /\ pc[p] = "save"
  /\ Finish(p, "error")
  /\ Updates /\ UNCHANGED <<disk, contact>>

UpdateStep(p) ==
  \/ UpgradeStarts(p) \/ UpgradeCandidate(p) \/ UpgradeStops(p) \/ UpgradeLocks(p)
  \/ UpgradeBusy(p) \/ UpgradeRechecks(p) \/ UpgradeReplaces(p) \/ ReplaceFails(p)
  \/ WorkerStarts(p) \/ WorkerLocks(p) \/ WorkerBusy(p) \/ Reserve(p) \/ ReserveStops(p)
  \/ WorkerChecks(p) \/ WorkerCheckFails(p) \/ WorkerReplaces(p) \/ WorkerSaves(p)
  \/ WorkerSaveFails(p)
=============================================================================
