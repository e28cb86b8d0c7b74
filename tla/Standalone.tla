----------------------------- MODULE Standalone ------------------------------
(***************************************************************************)
(* A standalone installation: one prefix with the two binaries, the        *)
(* receipt and update state of the user, and the lock that the installer   *)
(* (src/install.rs), the manual upgrade and the periodic worker            *)
(* (src/update.rs) compete for.  Every process runs one command.           *)
(***************************************************************************)
EXTENDS Integers

CONSTANTS
  Procs,       \* the processes
  Versions,    \* the versions of Crawlson, ordered
  Line,        \* the line of compatible versions each belongs to
  Shipped,     \* who installed what the prefix holds at the beginning
  Operator,    \* who put files there that no installer wrote
  NoOne,       \* no process, no owner
  NoFile,      \* an absent file
  ByPath,      \* the casts of a platform that finds an executable by its path, not its file
  Day, Week,   \* CHECK_FAILURE_INTERVAL and CHECK_SUCCESS_INTERVAL
  Jitter,      \* what is added to either
  MaxTime      \* a bound on the clock

ASSUME StandaloneAssumption ==
  /\ Versions \subseteq Nat \ {0}
  /\ Line \in [Versions -> Nat]
  /\ Day \in Nat \ {0} /\ Week \in Nat /\ Day <= Week
  /\ Jitter \subseteq Nat /\ MaxTime \in Nat
  /\ {Shipped, Operator, NoOne} \cap Procs = {}
  /\ Shipped # Operator /\ Shipped # NoOne /\ Operator # NoOne

\* The commit order of the two targets.
Names == {"crawlson", "clson"}
First(names) == IF "crawlson" \in names THEN "crawlson" ELSE "clson"
Last(names) == IF "clson" \in names THEN "clson" ELSE "crawlson"

\* A file is told from another of the same version by who put it there.
File == [version : Versions, by : Procs \cup {Shipped, Operator}]

\* place is what the receipt's binary path names; invalid, when it does not parse.
Receipt == [place : {"here", "elsewhere", "invalid"}, id : Procs \cup {Shipped}]

\* next is next_check_at, installed last_install_at, -1 for neither.
UpdateState == [id : Procs \cup {Shipped}, next : Int, installed : Int]

ASSUME NoFileAssumption == NoFile \notin File \cup Receipt \cup UpdateState

FreshState(id) == [id |-> id, next |-> -1, installed |-> -1]

Commands == {"install", "upgrade", "worker"}

NoBackups == [n \in Names |-> NoFile]

\* A transaction: the receipt and the files it found, the flags of both PendingTargets, and
\* what a rollback still has to do.
Transaction == [prior  : Receipt \cup {NoFile},
                id     : Procs \cup {Shipped, NoOne},
                found  : [Names -> File \cup {NoFile}],
                backup : [Names -> File \cup {NoFile}],
                placed : SUBSET Names,
                left   : SUBSET Names,
                errors : BOOLEAN]

NoTransaction == [prior |-> NoFile, id |-> NoOne, found |-> NoBackups, backup |-> NoBackups,
                  placed |-> {}, left |-> {}, errors |-> FALSE]

\* What an updating process has in memory: the file it runs, the ownership it read last (an
\* install id or NoOne), its verified candidate, and a worker's time and update state.
Memory == [exe       : File \cup {NoFile},
           owner     : Procs \cup {Shipped, NoOne},
           candidate : Versions \cup {0},
           started   : 0 .. MaxTime,
           state     : UpdateState \cup {NoFile}]

NoMemory == [exe |-> NoFile, owner |-> NoOne, candidate |-> 0, started |-> 0, state |-> NoFile]

VARIABLES
  bin,        \* the files at the prefix
  receipt,    \* install.json
  state,      \* update-state.json; NoFile when it is absent or does not parse
  lock,       \* who holds update.lock
  now,        \* the clock
  release,    \* the latest signed release, 0 for none
  command,    \* what each process runs
  bundle,     \* the version of an installer's bundle
  pc,         \* what each process does next
  result,     \* how its command ended
  mem,        \* an updating process's memory
  tx,         \* an installer's transaction
  contact     \* the last contact of a worker with the release service

disk == <<bin, receipt, state>>
world == <<now, release, command, bundle>>
vars == <<bin, receipt, state, lock, now, release, command, bundle, pc, result, mem, tx,
          contact>>
-----------------------------------------------------------------------------
\* The receipt names this prefix's crawlson, and both paths resolve.
receipt_manages_binary ==
  /\ receipt # NoFile /\ receipt.place = "here"
  /\ bin["crawlson"] # NoFile

\* What current_exe answers is the path it was started from, whatever file is there by now.
ExeByPath == command \in ByPath

\* The path of the running executable is still the installed binary's.
ExeAtPrefix(p) ==
  /\ bin["crawlson"] # NoFile
  /\ ExeByPath \/ bin["crawlson"] = mem[p].exe

installation_ownership(p) ==
  IF ExeAtPrefix(p) /\ receipt_manages_binary THEN receipt.id ELSE NoOne

Goto(p, next) == pc' = [pc EXCEPT ![p] = next]

\* The process is gone, with its lock and its memory.
Leave(p, next) ==
  /\ Goto(p, next)
  /\ lock' = IF lock = p THEN NoOne ELSE lock
  /\ mem' = [mem EXCEPT ![p] = NoMemory]
  /\ tx' = [tx EXCEPT ![p] = NoTransaction]

\* The command returns: its transaction directory is deleted, then its lock released.
Finish(p, r) ==
  /\ Leave(p, "done")
  /\ result' = [result EXCEPT ![p] = r]

Continue(p, next) == Goto(p, next) /\ UNCHANGED result

\* Mutant: the lock file is opened and not locked.
TakesUnlocked(p, next) ==
  /\ Continue(p, next)
  /\ lock' = p

\* try_update_lock never waits.
TakesLock(p, next) ==
  /\ lock = NoOne
  /\ lock' = p
  /\ Continue(p, next)
=============================================================================
